---- MODULE Spec2Model ----
(***************************************************************************)
(* A model of the calculator notepad: the expression language (tokenizer,  *)
(* recursive-descent parser, unit-aware evaluator, value formatter), the   *)
(* statement parser, evaluateLine, and the editor's document pass (sync)   *)
(* with its focus / caret / idle-timer handlers.                           *)
(*                                                                         *)
(* Text is a sequence of one-character strings.  An amount (an IEEE        *)
(* double in the program) is an exact rational n/d, or one of the three    *)
(* non-finite doubles; a finite result whose magnitude exceeds MaxFinite   *)
(* overflows to an infinity, as a double does beyond Number.MAX_VALUE.     *)
(***************************************************************************)
EXTENDS Integers, Sequences, FiniteSets, TLC

\* Stand-in for Number.MAX_VALUE: the largest finite magnitude of an amount.
MaxFinite == 1000000

----------------------------------------------------------------------------
(* Characters and strings                                                  *)

Digits == {"0", "1", "2", "3", "4", "5", "6", "7", "8", "9"}

Letters ==
  {"a", "b", "c", "d", "e", "f", "g", "h", "i", "j", "k", "l", "m",
   "n", "o", "p", "q", "r", "s", "t", "u", "v", "w", "x", "y", "z",
   "A", "B", "C", "D", "E", "F", "G", "H", "I", "J", "K", "L", "M",
   "N", "O", "P", "Q", "R", "S", "T", "U", "V", "W", "X", "Y", "Z", "_"}

\* /\s/ and String.prototype.trim: the whitespace that can occur in a line.
Whitespace == {" ", "\t"}

DigitValue(c) ==
  CASE c = "0" -> 0 [] c = "1" -> 1 [] c = "2" -> 2 [] c = "3" -> 3
    [] c = "4" -> 4 [] c = "5" -> 5 [] c = "6" -> 6 [] c = "7" -> 7
    [] c = "8" -> 8 [] c = "9" -> 9

DigitChar(n) ==
  CASE n = 0 -> "0" [] n = 1 -> "1" [] n = 2 -> "2" [] n = 3 -> "3"
    [] n = 4 -> "4" [] n = 5 -> "5" [] n = 6 -> "6" [] n = 7 -> "7"
    [] n = 8 -> "8" [] n = 9 -> "9"

\* s.slice(from, to) with 0-based, end-exclusive indices.
Slice(s, from, to) ==
  IF to <= from THEN << >> ELSE SubSeq(s, from + 1, to)

RECURSIVE trimStart(_)
trimStart(s) ==
  IF s # << >> /\ Head(s) \in Whitespace THEN trimStart(Tail(s)) ELSE s

RECURSIVE trimEnd(_)
trimEnd(s) ==
  IF s # << >> /\ s[Len(s)] \in Whitespace
    THEN trimEnd(SubSeq(s, 1, Len(s) - 1))
    ELSE s

trim(s) == trimEnd(trimStart(s))

\* s.indexOf(c): 0-based index of the first occurrence, -1 if none.
indexOf(s, c) ==
  IF \E i \in 1..Len(s) : s[i] = c
    THEN (CHOOSE i \in 1..Len(s) : s[i] = c /\ \A j \in 1..(i - 1) : s[j] # c) - 1
    ELSE -1

includes(s, c) == \E i \in 1..Len(s) : s[i] = c

\* s.split(c): the pieces between occurrences of c (always at least one).
RECURSIVE split(_, _)
split(s, c) ==
  LET at == indexOf(s, c)
  IN  IF at = -1 THEN << s >>
      ELSE << Slice(s, 0, at) >> \o split(Slice(s, at + 1, Len(s)), c)

RECURSIVE Concat(_)
Concat(parts) ==
  IF parts = << >> THEN << >> ELSE Head(parts) \o Concat(Tail(parts))

----------------------------------------------------------------------------
(* Amounts                                                                 *)

Abs(n) == IF n < 0 THEN -n ELSE n

Sign(n) == IF n < 0 THEN -1 ELSE IF n > 0 THEN 1 ELSE 0

RECURSIVE GCD(_, _)
GCD(a, b) == IF b = 0 THEN a ELSE GCD(b, a % b)

PosInf == [k |-> "inf", n |-> 1, d |-> 0]
NegInf == [k |-> "inf", n |-> -1, d |-> 0]
NaN == [k |-> "nan", n |-> 0, d |-> 0]

InfOf(sign) == IF sign < 0 THEN NegInf ELSE PosInf

\* |n/d| exceeds the largest finite magnitude (d > 0).
Overflows(n, d) ==
  \/ Abs(n) \div d > MaxFinite
  \/ Abs(n) \div d = MaxFinite /\ Abs(n) % d # 0

\* The double nearest n/d (d > 0): the reduced fraction, or an infinity.
Rat(n, d) ==
  IF Overflows(n, d) THEN InfOf(n)
  ELSE LET g == GCD(Abs(n), d)
       IN  [k |-> "fin", n |-> n \div g, d |-> d \div g]

Int2Amount(n) == Rat(n, 1)

Zero == Int2Amount(0)

\* A test that takes every amount for a finite one.
isFiniteAlways(a) == TRUE

\* Number.isFinite
isFinite(a) == a.k = "fin"

IsZero(a) == a.k = "fin" /\ a.n = 0

AmountSign(a) == IF a.k = "nan" THEN 0 ELSE Sign(a.n)

IsInteger(a) == a.k = "fin" /\ a.d = 1

\* a < b on doubles (false whenever either side is NaN).
Less(a, b) ==
  CASE a.k = "nan" \/ b.k = "nan" -> FALSE
    [] a.k = "inf" /\ b.k = "inf" -> a.n < b.n
    [] a.k = "inf" -> a.n < 0
    [] b.k = "inf" -> b.n > 0
    [] OTHER -> a.n * b.d < b.n * a.d

LessEq(a, b) == a.k # "nan" /\ b.k # "nan" /\ ~Less(b, a)

Neg(a) == IF a.k = "nan" THEN NaN ELSE [a EXCEPT !.n = -a.n]

Add(a, b) ==
  CASE a.k = "nan" \/ b.k = "nan" -> NaN
    [] a.k = "inf" /\ b.k = "inf" -> IF a.n = b.n THEN a ELSE NaN
    [] a.k = "inf" -> a
    [] b.k = "inf" -> b
    [] OTHER -> Rat(a.n * b.d + b.n * a.d, a.d * b.d)

Sub(a, b) == Add(a, Neg(b))

Mul(a, b) ==
  CASE a.k = "nan" \/ b.k = "nan" -> NaN
    [] a.k = "inf" \/ b.k = "inf" ->
         IF IsZero(a) \/ IsZero(b) THEN NaN ELSE InfOf(AmountSign(a) * AmountSign(b))
    [] OTHER ->
         LET g1 == GCD(Abs(a.n), b.d)
             g2 == GCD(Abs(b.n), a.d)
             n1 == a.n \div g1
             n2 == b.n \div g2
             d1 == a.d \div g2
             d2 == b.d \div g1
             i1 == Abs(n1) \div d1
             i2 == Abs(n2) \div d2
         IN  IF n1 = 0 \/ n2 = 0 THEN Zero
             ELSE IF i1 > 0 /\ i2 > MaxFinite \div i1 THEN InfOf(Sign(n1) * Sign(n2))
             ELSE Rat(n1 * n2, d1 * d2)

\* a / b for a divisor that is not zero (the evaluator rejects zero first).
Div(a, b) ==
  CASE a.k = "nan" \/ b.k = "nan" -> NaN
    [] a.k = "inf" /\ b.k = "inf" -> NaN
    [] a.k = "inf" -> InfOf(a.n * AmountSign(b))
    [] b.k = "inf" -> Zero
    [] OTHER -> Mul(a, [k |-> "fin", n |-> Sign(b.n) * b.d, d |-> Abs(b.n)])

\* acc multiplied e times by a, stopping once the product has overflowed.
RECURSIVE PowAcc(_, _, _)
PowAcc(a, e, acc) ==
  IF e = 0 \/ ~isFinite(acc) THEN acc ELSE PowAcc(a, e - 1, Mul(acc, a))

PowNat(a, e) ==
  IF e = 0 THEN Int2Amount(1)
  ELSE IF ~isFinite(a) \/ a = Int2Amount(1) \/ IsZero(a) THEN a
  ELSE IF isFinite(PowAcc(a, e, Int2Amount(1))) THEN PowAcc(a, e, Int2Amount(1))
  ELSE InfOf(IF e % 2 = 0 THEN 1 ELSE AmountSign(a))

\* |a| compared with 1, for a finite a: -1, 0 or 1.
MagnitudeVsOne(a) == IF Abs(a.n) < a.d THEN -1 ELSE IF Abs(a.n) = a.d THEN 0 ELSE 1

\* Math.pow.  A fractional exponent is covered where the result is exact:
\* NaN for a negative base, and the fixed points 0 and 1.
Pow(a, b) ==
  CASE IsZero(b) -> Int2Amount(1)
    [] a.k = "nan" \/ b.k = "nan" -> NaN
    [] b.k = "inf" /\ a.k = "inf" -> IF b.n > 0 THEN PosInf ELSE Zero
    [] b.k = "inf" ->
         IF MagnitudeVsOne(a) = 0 THEN NaN
         ELSE IF (MagnitudeVsOne(a) > 0) = (b.n > 0) THEN PosInf ELSE Zero
    [] a.k = "inf" ->
         IF b.n < 0 THEN Zero
         ELSE IF a.n < 0 /\ IsInteger(b) /\ b.n % 2 = 1 THEN NegInf ELSE PosInf
    [] IsInteger(b) /\ b.n >= 0 -> PowNat(a, b.n)
    [] IsInteger(b) /\ IsZero(a) -> PosInf
    [] IsInteger(b) -> PowNat([k |-> "fin", n |-> Sign(a.n) * a.d, d |-> Abs(a.n)], -b.n)
    [] a.n < 0 -> NaN
    [] IsZero(a) -> IF b.n > 0 THEN Zero ELSE PosInf
    [] a = Int2Amount(1) -> a

Floor(a) == IF isFinite(a) THEN Int2Amount(a.n \div a.d) ELSE a

Ceil(a) == IF isFinite(a) THEN Int2Amount(-((-a.n) \div a.d)) ELSE a

\* Math.round: to the nearest integer, a half going up.
Round(a) == IF isFinite(a) THEN Int2Amount((2 * a.n + a.d) \div (2 * a.d)) ELSE a

----------------------------------------------------------------------------
(* Values and results                                                      *)

Units == {"none", "usd"}

Val(amount, unit) == [amount |-> amount, unit |-> unit]

numberValue(amount) == Val(amount, "none")

usdValue(amount) == Val(amount, "usd")

Empty == [kind |-> "empty"]

ValueResult(v) == [kind |-> "value", value |-> v]

\* An error result; the message is a fixed text followed by a detail taken
\* from the input (empty when the message has none).
Err(msg, detail) == [kind |-> "error", error |-> << msg, detail >>]

Null == [kind |-> "null"]

----------------------------------------------------------------------------
(* Tokenizer                                                               *)

RECURSIVE DigitsToInt(_, _)
DigitsToInt(s, acc) ==
  IF s = << >> THEN acc ELSE DigitsToInt(Tail(s), 10 * acc + DigitValue(Head(s)))

RECURSIVE PowerOfTen(_)
PowerOfTen(k) == IF k = 0 THEN 1 ELSE 10 * PowerOfTen(k - 1)

\* Number(text) for a text of digits with at most one decimal point.
ToNumber(text) ==
  LET parts == split(text, ".")
      int == parts[1]
      frac == IF Len(parts) > 1 THEN parts[2] ELSE << >>
  IN  IF int = << >> /\ frac = << >> THEN NaN
      ELSE Rat(DigitsToInt(int \o frac, 0), PowerOfTen(Len(frac)))

\* parseNumericLiteral without the test of the groups after the first.
parseNumericLiteralAnyLaterGroups(raw) ==
  LET parts == split(raw, ".")
      integerPart == parts[1]
      hasFraction == Len(parts) > 1
      groups == split(integerPart, ",")
      badGrouping ==
        /\ includes(raw, ",")
        /\ \/ hasFraction /\ includes(parts[2], ",")
           \/ \E i \in 1..Len(groups) : Len(groups[i]) = 0
           \/ Len(groups[1]) < 1
           \/ Len(groups[1]) > 3
      value == ToNumber(SelectSeq(raw, LAMBDA c : c # ","))
  IN  IF badGrouping THEN Null
      ELSE IF ~isFinite(value) THEN Null
      ELSE value

parseNumericLiteral(raw) ==
  LET parts == split(raw, ".")
      integerPart == parts[1]
      hasFraction == Len(parts) > 1
      groups == split(integerPart, ",")
      badGrouping ==
        /\ includes(raw, ",")
        /\ \/ hasFraction /\ includes(parts[2], ",")
           \/ \E i \in 1..Len(groups) : Len(groups[i]) = 0
           \/ Len(groups[1]) < 1
           \/ Len(groups[1]) > 3
           \/ \E i \in 2..Len(groups) : Len(groups[i]) # 3
      value == ToNumber(SelectSeq(raw, LAMBDA c : c # ","))
  IN  IF badGrouping THEN Null
      ELSE IF ~isFinite(value) THEN Null
      ELSE value

RECURSIVE ScanNumericFrom(_, _, _)
ScanNumericFrom(input, end, seenDot) ==
  IF end >= Len(input) THEN end
  ELSE LET char == input[end + 1]
           digits == Slice(input, end + 1, IF end + 4 < Len(input) THEN end + 4 ELSE Len(input))
       IN  CASE char \in Digits -> ScanNumericFrom(input, end + 1, seenDot)
             [] char = "." ->
                  IF seenDot THEN end ELSE ScanNumericFrom(input, end + 1, TRUE)
             [] char = "," ->
                  IF seenDot THEN end
                  ELSE IF Len(digits) = 3 /\ \A i \in 1..3 : digits[i] \in Digits
                    THEN ScanNumericFrom(input, end + 1, seenDot)
                    ELSE end
             [] OTHER -> end

scanNumericToken(input, start) == ScanNumericFrom(input, start, FALSE)

RECURSIVE SkipBlanks(_, _)
SkipBlanks(input, index) ==
  IF index < Len(input) /\ input[index + 1] \in Whitespace
    THEN SkipBlanks(input, index + 1)
    ELSE index

RECURSIVE IdentEnd(_, _)
IdentEnd(input, end) ==
  IF end < Len(input) /\ input[end + 1] \in (Letters \cup Digits)
    THEN IdentEnd(input, end + 1)
    ELSE end

Operators == {"+", "-", "*", "/", "^"}

RECURSIVE TokenizeFrom(_, _, _)
TokenizeFrom(input, index, tokens) ==
  IF index >= Len(input) THEN [kind |-> "tokens", tokens |-> tokens]
  ELSE
    LET char == input[index + 1]
    IN  CASE char \in Whitespace -> TokenizeFrom(input, index + 1, tokens)
          [] char = "(" ->
               TokenizeFrom(input, index + 1, Append(tokens, [type |-> "lparen"]))
          [] char = ")" ->
               TokenizeFrom(input, index + 1, Append(tokens, [type |-> "rparen"]))
          [] char = "," ->
               TokenizeFrom(input, index + 1, Append(tokens, [type |-> "comma"]))
          [] char \in Operators ->
               TokenizeFrom(input, index + 1, Append(tokens, [type |-> "op", value |-> char]))
          [] char = "$" ->
               LET from == SkipBlanks(input, index + 1)
                   end == scanNumericToken(input, from)
                   rawNumber == Slice(input, from, end)
                   value == parseNumericLiteral(rawNumber)
               IN  IF from >= Len(input) \/ input[from + 1] \notin (Digits \cup {"."})
                     THEN Err("Expected number after $", << >>)
                   ELSE IF value = Null THEN Err("Invalid number: ", rawNumber)
                   ELSE TokenizeFrom(input, end,
                          Append(tokens, [type |-> "number",
                                          raw |-> Slice(input, index, end),
                                          value |-> usdValue(value)]))
          [] char \in Letters ->
               LET end == IdentEnd(input, index + 1)
               IN  TokenizeFrom(input, end,
                     Append(tokens, [type |-> "ident", name |-> Slice(input, index, end)]))
          [] char \in (Digits \cup {"."}) ->
               LET end == scanNumericToken(input, index)
                   raw == Slice(input, index, end)
                   value == parseNumericLiteral(raw)
               IN  IF value = Null THEN Err("Invalid number: ", raw)
                   ELSE TokenizeFrom(input, end,
                          Append(tokens, [type |-> "number", raw |-> raw,
                                          value |-> numberValue(value)]))
          [] OTHER -> Err("Unexpected character: ", << char >>)

tokenize(input) == TokenizeFrom(input, 0, << >>)

----------------------------------------------------------------------------
(* Expression parser                                                       *)

Node(expr, index) == [kind |-> "node", expr |-> expr, index |-> index]

\* current(): the token at the index, or a token of no type past the end.
current(tokens, index) ==
  IF index < Len(tokens) THEN tokens[index + 1] ELSE [type |-> "undefined"]

\* peekOp's null: no operator of the wanted set is next.
NoOp == "none"

peekOp(tokens, index, ops) ==
  LET token == current(tokens, index)
  IN  IF token.type # "op" THEN NoOp
      ELSE IF token.value \notin ops THEN NoOp
      ELSE token.value

Binary(op, left, right) == [type |-> "binary", op |-> op, left |-> left, right |-> right]

UnexpectedToken(token) ==
  Err("Unexpected token: ",
      CASE token.type = "op" -> << "o", "p" >>
        [] token.type = "rparen" -> << "r", "p", "a", "r", "e", "n" >>
        [] token.type = "comma" -> << "c", "o", "m", "m", "a" >>)

\* peekOp(['+', '-']) in parseAddSub.
addSubOps == {"+", "-"}

\* A parseMulDiv whose loop takes the additive operators as well: the two
\* levels of the ladder collapse into one.
mulDivOpsWithAddSub == {"*", "/", "+", "-"}

\* peekOp(['*', '/']) in parseMulDiv.
mulDivOps == {"*", "/"}

\* A parsePow that reads its right operand with parseUnary: a sign is
\* accepted after `^`.
powRightOperandSigned == "parseUnary"

\* `const right = parsePow()`: the rule parsePow reads its right operand with.
powRightOperand == "parsePow"

\* The functions nested in parse(), as the rules of one recursive operator:
\* parseAddSub, parseMulDiv, parseUnary, parsePow and parsePrimary start at
\* `index`; addSubLoop and mulDivLoop are the while loops of the first two,
\* with the left operand built so far in `carry`; args is the argument loop
\* of a call, with the arguments parsed so far in `carry`.
RECURSIVE parseRule(_, _, _, _)
parseRule(rule, tokens, index, carry) ==
  CASE rule = "parseAddSub" ->
         LET left == parseRule("parseMulDiv", tokens, index, Null)
         IN  IF left.kind = "error" THEN left
             ELSE parseRule("addSubLoop", tokens, left.index, left.expr)
    [] rule = "addSubLoop" ->
         LET op == peekOp(tokens, index, addSubOps)
             right == parseRule("parseMulDiv", tokens, index + 1, Null)
         IN  IF op = NoOp THEN Node(carry, index)
             ELSE IF right.kind = "error" THEN right
             ELSE parseRule("addSubLoop", tokens, right.index, Binary(op, carry, right.expr))
    [] rule = "parseMulDiv" ->
         LET left == parseRule("parseUnary", tokens, index, Null)
         IN  IF left.kind = "error" THEN left
             ELSE parseRule("mulDivLoop", tokens, left.index, left.expr)
    [] rule = "mulDivLoop" ->
         LET op == peekOp(tokens, index, mulDivOps)
             right == parseRule("parseUnary", tokens, index + 1, Null)
         IN  IF op = NoOp THEN Node(carry, index)
             ELSE IF right.kind = "error" THEN right
             ELSE parseRule("mulDivLoop", tokens, right.index, Binary(op, carry, right.expr))
    [] rule = "parseUnary" ->
         LET token == current(tokens, index)
             expr == parseRule("parseUnary", tokens, index + 1, Null)
         IN  IF token.type = "op" /\ token.value \in {"+", "-"}
               THEN IF expr.kind = "error" THEN expr
                    ELSE Node([type |-> "unary", op |-> token.value, expr |-> expr.expr],
                              expr.index)
               ELSE parseRule("parsePow", tokens, index, Null)
    [] rule = "parsePow" ->
         \* Right-associative exponentiation with higher precedence than unary.
         LET left == parseRule("parsePrimary", tokens, index, Null)
             right == parseRule(powRightOperand, tokens, left.index + 1, Null)
         IN  IF left.kind = "error" THEN left
             ELSE IF peekOp(tokens, left.index, {"^"}) = NoOp THEN left
             ELSE IF right.kind = "error" THEN right
             ELSE Node(Binary("^", left.expr, right.expr), right.index)
    [] rule = "args" ->
         LET expr == parseRule("parseAddSub", tokens, index, Null)
         IN  IF expr.kind = "error" THEN expr
             ELSE IF current(tokens, expr.index).type = "comma"
               THEN parseRule("args", tokens, expr.index + 1, Append(carry, expr.expr))
               ELSE [kind |-> "args", args |-> Append(carry, expr.expr), index |-> expr.index]
    [] rule = "parsePrimary" ->
         LET token == current(tokens, index)
             parsed == IF current(tokens, index + 2).type # "rparen"
                         THEN parseRule("args", tokens, index + 2, << >>)
                         ELSE [kind |-> "args", args |-> << >>, index |-> index + 2]
             expr == parseRule("parseAddSub", tokens, index + 1, Null)
         IN  CASE token.type = "undefined" -> Err("Unexpected end of input", << >>)
               [] token.type = "number" ->
                    Node([type |-> "number", value |-> token.value], index + 1)
               [] token.type = "ident" /\ current(tokens, index + 1).type = "lparen" ->
                    IF parsed.kind = "error" THEN parsed
                    ELSE IF current(tokens, parsed.index).type # "rparen"
                      THEN Err("Missing closing )", << >>)
                    ELSE Node([type |-> "call", name |-> token.name, args |-> parsed.args],
                              parsed.index + 1)
               [] token.type = "ident" ->
                    Node([type |-> "ident", name |-> token.name], index + 1)
               [] token.type = "lparen" ->
                    IF expr.kind = "error" THEN expr
                    ELSE IF current(tokens, expr.index).type # "rparen"
                      THEN Err("Missing closing )", << >>)
                    ELSE Node(expr.expr, expr.index + 1)
               [] OTHER -> UnexpectedToken(token)

parseExpression(tokens, index) == parseRule("parseAddSub", tokens, index, Null)

parse(tokens) ==
  LET expr == parseExpression(tokens, 0)
  IN  IF expr.kind = "error" THEN expr
      ELSE IF expr.index < Len(tokens) THEN Err("Unexpected trailing input", << >>)
      ELSE expr

----------------------------------------------------------------------------
(* Evaluator                                                               *)

evalUnary(op, value) ==
  Val(IF op = "-" THEN Neg(value.amount) ELSE value.amount, value.unit)

\* evalBinary with the unit test of `/` made before the test for a zero
\* divisor.
evalBinaryUnitsBeforeZero(op, left, right) ==
  CASE op \in {"+", "-"} ->
         LET l == IF left.unit # right.unit /\ left.unit = "none"
                    THEN Val(left.amount, right.unit) ELSE left
             r == IF left.unit # right.unit /\ left.unit # "none" /\ right.unit = "none"
                    THEN Val(right.amount, left.unit) ELSE right
         IN  IF left.unit # right.unit /\ left.unit # "none" /\ right.unit # "none"
               THEN Err("Unit mismatch", << >>)
               ELSE ValueResult(Val(IF op = "+" THEN Add(l.amount, r.amount)
                                                ELSE Sub(l.amount, r.amount),
                                    l.unit))
    [] op = "*" ->
         IF left.unit # "none" /\ right.unit # "none"
           THEN Err("Cannot multiply two unit values", << >>)
           ELSE ValueResult(Val(Mul(left.amount, right.amount),
                                IF left.unit = "none" THEN right.unit ELSE left.unit))
    [] op = "/" ->
         IF right.unit # "none" /\ left.unit # right.unit THEN Err("Unit mismatch", << >>)
         ELSE IF IsZero(right.amount) THEN Err("Division by zero", << >>)
         ELSE IF right.unit = "none"
           THEN ValueResult(Val(Div(left.amount, right.amount), left.unit))
         ELSE ValueResult(Val(Div(left.amount, right.amount), "none"))
    [] op = "^" ->
         IF left.unit # "none" \/ right.unit # "none"
           THEN Err("Cannot exponentiate unit values", << >>)
         ELSE LET value == Pow(left.amount, right.amount)
              IN  IF ~isFinite(value) THEN Err("Invalid exponentiation", << >>)
                  ELSE ValueResult(Val(value, "none"))
    [] OTHER -> Err("Unknown operator", << >>)

\* evalBinary without the promotion of a unitless right operand of `+` and `-`.
evalBinaryPromotingLeftOnly(op, left, right) ==
  CASE op \in {"+", "-"} ->
         LET l == IF left.unit # right.unit /\ left.unit = "none"
                    THEN Val(left.amount, right.unit) ELSE left
             r == right
         IN  IF left.unit # right.unit /\ left.unit # "none"
               THEN Err("Unit mismatch", << >>)
               ELSE ValueResult(Val(IF op = "+" THEN Add(l.amount, r.amount)
                                                ELSE Sub(l.amount, r.amount),
                                    l.unit))
    [] op = "*" ->
         IF left.unit # "none" /\ right.unit # "none"
           THEN Err("Cannot multiply two unit values", << >>)
           ELSE ValueResult(Val(Mul(left.amount, right.amount),
                                IF left.unit = "none" THEN right.unit ELSE left.unit))
    [] op = "/" ->
         IF IsZero(right.amount) THEN Err("Division by zero", << >>)
         ELSE IF right.unit = "none"
           THEN ValueResult(Val(Div(left.amount, right.amount), left.unit))
         ELSE IF left.unit = right.unit
           THEN ValueResult(Val(Div(left.amount, right.amount), "none"))
         ELSE Err("Unit mismatch", << >>)
    [] op = "^" ->
         IF left.unit # "none" \/ right.unit # "none"
           THEN Err("Cannot exponentiate unit values", << >>)
         ELSE LET value == Pow(left.amount, right.amount)
              IN  IF ~isFinite(value) THEN Err("Invalid exponentiation", << >>)
                  ELSE ValueResult(Val(value, "none"))
    [] OTHER -> Err("Unknown operator", << >>)

\* evalBinary with the product always carrying the unit of the left operand.
evalBinaryProductWithLeftUnit(op, left, right) ==
  CASE op \in {"+", "-"} ->
         LET l == IF left.unit # right.unit /\ left.unit = "none"
                    THEN Val(left.amount, right.unit) ELSE left
             r == IF left.unit # right.unit /\ left.unit # "none" /\ right.unit = "none"
                    THEN Val(right.amount, left.unit) ELSE right
         IN  IF left.unit # right.unit /\ left.unit # "none" /\ right.unit # "none"
               THEN Err("Unit mismatch", << >>)
               ELSE ValueResult(Val(IF op = "+" THEN Add(l.amount, r.amount)
                                                ELSE Sub(l.amount, r.amount),
                                    l.unit))
    [] op = "*" ->
         IF left.unit # "none" /\ right.unit # "none"
           THEN Err("Cannot multiply two unit values", << >>)
           ELSE ValueResult(Val(Mul(left.amount, right.amount),
                                left.unit))
    [] op = "/" ->
         IF IsZero(right.amount) THEN Err("Division by zero", << >>)
         ELSE IF right.unit = "none"
           THEN ValueResult(Val(Div(left.amount, right.amount), left.unit))
         ELSE IF left.unit = right.unit
           THEN ValueResult(Val(Div(left.amount, right.amount), "none"))
         ELSE Err("Unit mismatch", << >>)
    [] op = "^" ->
         IF left.unit # "none" \/ right.unit # "none"
           THEN Err("Cannot exponentiate unit values", << >>)
         ELSE LET value == Pow(left.amount, right.amount)
              IN  IF ~isFinite(value) THEN Err("Invalid exponentiation", << >>)
                  ELSE ValueResult(Val(value, "none"))
    [] OTHER -> Err("Unknown operator", << >>)

\* An evalBinary whose quotient of two amounts of one unit keeps the unit.
evalBinaryQuotientKeepingUnit(op, left, right) ==
  CASE op \in {"+", "-"} ->
         LET l == IF left.unit # right.unit /\ left.unit = "none"
                    THEN Val(left.amount, right.unit) ELSE left
             r == IF left.unit # right.unit /\ left.unit # "none" /\ right.unit = "none"
                    THEN Val(right.amount, left.unit) ELSE right
         IN  IF left.unit # right.unit /\ left.unit # "none" /\ right.unit # "none"
               THEN Err("Unit mismatch", << >>)
               ELSE ValueResult(Val(IF op = "+" THEN Add(l.amount, r.amount)
                                                ELSE Sub(l.amount, r.amount),
                                    l.unit))
    [] op = "*" ->
         IF left.unit # "none" /\ right.unit # "none"
           THEN Err("Cannot multiply two unit values", << >>)
           ELSE ValueResult(Val(Mul(left.amount, right.amount),
                                IF left.unit = "none" THEN right.unit ELSE left.unit))
    [] op = "/" ->
         IF IsZero(right.amount) THEN Err("Division by zero", << >>)
         ELSE IF right.unit = "none" \/ left.unit = right.unit
           THEN ValueResult(Val(Div(left.amount, right.amount), left.unit))
         ELSE Err("Unit mismatch", << >>)
    [] op = "^" ->
         IF left.unit # "none" \/ right.unit # "none"
           THEN Err("Cannot exponentiate unit values", << >>)
         ELSE LET value == Pow(left.amount, right.amount)
              IN  IF ~isFinite(value) THEN Err("Invalid exponentiation", << >>)
                  ELSE ValueResult(Val(value, "none"))
    [] OTHER -> Err("Unknown operator", << >>)

evalBinary(op, left, right) ==
  CASE op \in {"+", "-"} ->
         LET l == IF left.unit # right.unit /\ left.unit = "none"
                    THEN Val(left.amount, right.unit) ELSE left
             r == IF left.unit # right.unit /\ left.unit # "none" /\ right.unit = "none"
                    THEN Val(right.amount, left.unit) ELSE right
         IN  IF left.unit # right.unit /\ left.unit # "none" /\ right.unit # "none"
               THEN Err("Unit mismatch", << >>)
               ELSE ValueResult(Val(IF op = "+" THEN Add(l.amount, r.amount)
                                                ELSE Sub(l.amount, r.amount),
                                    l.unit))
    [] op = "*" ->
         IF left.unit # "none" /\ right.unit # "none"
           THEN Err("Cannot multiply two unit values", << >>)
           ELSE ValueResult(Val(Mul(left.amount, right.amount),
                                IF left.unit = "none" THEN right.unit ELSE left.unit))
    [] op = "/" ->
         IF IsZero(right.amount) THEN Err("Division by zero", << >>)
         ELSE IF right.unit = "none"
           THEN ValueResult(Val(Div(left.amount, right.amount), left.unit))
         ELSE IF left.unit = right.unit
           THEN ValueResult(Val(Div(left.amount, right.amount), "none"))
         ELSE Err("Unit mismatch", << >>)
    [] op = "^" ->
         IF left.unit # "none" \/ right.unit # "none"
           THEN Err("Cannot exponentiate unit values", << >>)
         ELSE LET value == Pow(left.amount, right.amount)
              IN  IF ~isFinite(value) THEN Err("Invalid exponentiation", << >>)
                  ELSE ValueResult(Val(value, "none"))
    [] OTHER -> Err("Unknown operator", << >>)

\* A sum that keeps the unit of its left operand, whatever the right one has.
addValuesKeepingLeftUnit(left, right) ==
  ValueResult(Val(Add(left.amount, right.amount), left.unit))

addValues(left, right) == evalBinary("+", left, right)

\* env.get(name): the bound value, or Null when the name is not a key.
EnvGet(env, name) == IF name \in DOMAIN env THEN env[name] ELSE Null

\* env.set(name, value)
EnvSet(env, name, value) ==
  [key \in DOMAIN env \cup {name} |-> IF key = name THEN value ELSE env[key]]

EmptyEnv == [key \in {} |-> Null]

\* An arity test that lets a call with more arguments than `count` pass.
expectArityAtLeast(name, evaluatedArgs, count) ==
  IF Len(evaluatedArgs) < count
    THEN Err(IF count = 1 THEN " expects 1 argument" ELSE " expects 2 arguments", name)
    ELSE Null

\* `<name> expects <count> argument(s)`: here the detail (the name) comes
\* before the fixed text.
expectArity(name, evaluatedArgs, count) ==
  IF Len(evaluatedArgs) # count
    THEN Err(IF count = 1 THEN " expects 1 argument" ELSE " expects 2 arguments", name)
    ELSE Null

\* coercePairUnits without the promotion: both arguments keep their units.
coercePairUnitsKeepingUnits(left, right) == [left |-> left, right |-> right]

coercePairUnits(left, right) ==
  CASE left.unit = right.unit -> [left |-> left, right |-> right]
    [] left.unit = "none" -> [left |-> Val(left.amount, right.unit), right |-> right]
    [] right.unit = "none" -> [left |-> left, right |-> Val(right.amount, left.unit)]
    [] OTHER -> Err("Unit mismatch", << >>)

evalCall(name, evaluatedArgs) ==
  LET max == << "m", "a", "x" >>
      min == << "m", "i", "n" >>
      round == << "r", "o", "u", "n", "d" >>
      ceil == << "c", "e", "i", "l" >>
      floor == << "f", "l", "o", "o", "r" >>
  IN  CASE name \in {max, min} ->
             IF expectArity(name, evaluatedArgs, 2) # Null
               THEN expectArity(name, evaluatedArgs, 2)
             ELSE LET coerced == coercePairUnits(evaluatedArgs[1], evaluatedArgs[2])
                  IN  IF "kind" \in DOMAIN coerced THEN coerced
                      ELSE ValueResult(
                             IF name = max
                               THEN IF LessEq(coerced.right.amount, coerced.left.amount)
                                      THEN coerced.left ELSE coerced.right
                               ELSE IF LessEq(coerced.left.amount, coerced.right.amount)
                                      THEN coerced.left ELSE coerced.right)
        [] name \in {round, ceil, floor} ->
             IF expectArity(name, evaluatedArgs, 1) # Null
               THEN expectArity(name, evaluatedArgs, 1)
             ELSE LET input == evaluatedArgs[1]
                  IN  ValueResult(Val(CASE name = round -> Round(input.amount)
                                        [] name = ceil -> Ceil(input.amount)
                                        [] OTHER -> Floor(input.amount),
                                      input.unit))
        [] OTHER -> Err("Unknown function: ", name)

\* An evaluator that looks at the right operand, and at the last argument,
\* first.
RECURSIVE evalExprRightFirst(_, _)
evalExprRightFirst(expr, env) ==
  CASE expr.type = "number" -> ValueResult(expr.value)
    [] expr.type = "ident" ->
         IF EnvGet(env, expr.name) = Null
           THEN Err("Undefined variable: ", expr.name)
           ELSE ValueResult(EnvGet(env, expr.name))
    [] expr.type = "call" ->
         LET results == [i \in 1..Len(expr.args) |-> evalExprRightFirst(expr.args[i], env)]
             failing == {i \in 1..Len(results) : results[i].kind # "value"}
             last == CHOOSE i \in failing : \A j \in failing : i >= j
         IN  IF failing # {} THEN results[last]
             ELSE evalCall(expr.name, [i \in 1..Len(results) |-> results[i].value])
    [] expr.type = "unary" ->
         LET inner == evalExprRightFirst(expr.expr, env)
         IN  IF inner.kind # "value" THEN inner
             ELSE ValueResult(evalUnary(expr.op, inner.value))
    [] expr.type = "binary" ->
         LET left == evalExprRightFirst(expr.left, env)
             right == evalExprRightFirst(expr.right, env)
         IN  IF right.kind # "value" THEN right
             ELSE IF left.kind # "value" THEN left
             ELSE evalBinary(expr.op, left.value, right.value)

RECURSIVE evalExpr(_, _)
evalExpr(expr, env) ==
  CASE expr.type = "number" -> ValueResult(expr.value)
    [] expr.type = "ident" ->
         IF EnvGet(env, expr.name) = Null
           THEN Err("Undefined variable: ", expr.name)
           ELSE ValueResult(EnvGet(env, expr.name))
    [] expr.type = "call" ->
         \* The argument loop returns the first result that is no value.
         LET results == [i \in 1..Len(expr.args) |-> evalExpr(expr.args[i], env)]
             failing == {i \in 1..Len(results) : results[i].kind # "value"}
             first == CHOOSE i \in failing : \A j \in failing : i <= j
         IN  IF failing # {} THEN results[first]
             ELSE evalCall(expr.name, [i \in 1..Len(results) |-> results[i].value])
    [] expr.type = "unary" ->
         LET inner == evalExpr(expr.expr, env)
         IN  IF inner.kind # "value" THEN inner
             ELSE ValueResult(evalUnary(expr.op, inner.value))
    [] expr.type = "binary" ->
         LET left == evalExpr(expr.left, env)
             right == evalExpr(expr.right, env)
         IN  IF left.kind # "value" THEN left
             ELSE IF right.kind # "value" THEN right
             ELSE evalBinary(expr.op, left.value, right.value)

evaluateExpression(source, env) ==
  LET trimmed == trim(source)
      tokensOrError == tokenize(trimmed)
      astOrError == parse(tokensOrError.tokens)
  IN  IF trimmed = << >> THEN Empty
      ELSE IF tokensOrError.kind = "error" THEN tokensOrError
      ELSE IF astOrError.kind = "error" THEN astOrError
      ELSE evalExpr(astOrError.expr, env)

----------------------------------------------------------------------------
(* Value formatter                                                         *)

RECURSIVE IntDigits(_)
IntDigits(n) ==
  IF n < 10 THEN << n >> ELSE Append(IntDigits(n \div 10), n % 10)

RECURSIVE DigitChars(_)
DigitChars(ds) ==
  IF ds = << >> THEN << >> ELSE << DigitChar(Head(ds)) >> \o DigitChars(Tail(ds))

\* String(n) for an integer n.
IntText(n) ==
  (IF n < 0 THEN << "-" >> ELSE << >>) \o DigitChars(IntDigits(Abs(n)))

RECURSIVE LongDiv(_, _, _)
LongDiv(r, d, count) ==
  IF count = 0 THEN [digits |-> << >>, rem |-> r]
  ELSE LET rest == LongDiv((r * 10) % d, d, count - 1)
       IN  [digits |-> << (r * 10) \div d >> \o rest.digits, rem |-> rest.rem]

RECURSIVE Lead(_, _, _)
Lead(r, d, e) == IF r * 10 < d THEN Lead(r * 10, d, e - 1) ELSE [r |-> r, e |-> e]

RECURSIVE IncDigits(_)
IncDigits(ds) ==
  IF ds = << >> THEN [digits |-> << >>, carry |-> TRUE]
  ELSE LET last == ds[Len(ds)]
           init == SubSeq(ds, 1, Len(ds) - 1)
       IN  IF last < 9 THEN [digits |-> Append(init, last + 1), carry |-> FALSE]
           ELSE [digits |-> Append(IncDigits(init).digits, 0),
                 carry |-> IncDigits(init).carry]

\* The k significant decimal digits of n/d (n, d > 0), rounded half up, and
\* the decimal exponent of the first of them.
SigDigits(n, d, k) ==
  LET int == n \div d
      intDs == IntDigits(int)
      len == Len(intDs)
      m == PowerOfTen(len - k)
      frac == LongDiv(n % d, d, k - len)
      lead == Lead(n, d, -1)
      small == LongDiv(lead.r, d, k)
      raw == IF n >= d
               THEN IF len >= k
                      THEN [digits |-> IntDigits(int \div m), e |-> len - 1,
                            up |-> 2 * (n - (int \div m) * m * d) >= m * d]
                      ELSE [digits |-> intDs \o frac.digits, e |-> len - 1,
                            up |-> 2 * frac.rem >= d]
               ELSE [digits |-> small.digits, e |-> lead.e, up |-> 2 * small.rem >= d]
      inc == IncDigits(raw.digits)
  IN  IF ~raw.up THEN [digits |-> raw.digits, e |-> raw.e]
      ELSE IF inc.carry
        THEN [digits |-> << 1 >> \o SubSeq(inc.digits, 1, k - 1), e |-> raw.e + 1]
        ELSE [digits |-> inc.digits, e |-> raw.e]

\* text.replace(/\.0+$/, '').replace(/(\.\d*?)0+$/, '$1') applied to the
\* digits after the decimal point: the trailing zeros go, and the point with
\* them when nothing is left.
RECURSIVE TrimZeros(_)
TrimZeros(fraction) ==
  IF fraction # << >> /\ fraction[Len(fraction)] = "0"
    THEN TrimZeros(SubSeq(fraction, 1, Len(fraction) - 1))
    ELSE fraction

WithFraction(integer, fraction) ==
  IF fraction = << >> THEN integer ELSE integer \o << "." >> \o fraction

\* integer.replace(/\B(?=(\d{3})+(?!\d))/g, ','), for digits after an
\* optional sign.
RECURSIVE GroupDigits(_)
GroupDigits(digits) ==
  IF Len(digits) <= 3 THEN digits
  ELSE GroupDigits(SubSeq(digits, 1, Len(digits) - 3))
         \o << "," >> \o SubSeq(digits, Len(digits) - 2, Len(digits))

withCommas(integer) ==
  IF integer # << >> /\ Head(integer) = "-"
    THEN << "-" >> \o GroupDigits(Tail(integer))
    ELSE GroupDigits(integer)

\* String(value) for a non-finite amount.
NonFiniteText(a) ==
  CASE a.k = "nan" -> << "N", "a", "N" >>
    [] a.n < 0 -> << "-", "I", "n", "f", "i", "n", "i", "t", "y" >>
    [] OTHER -> << "I", "n", "f", "i", "n", "i", "t", "y" >>

scientificThreshold == 1000000000

\* abs < 1e-9, that is |n| * 1e9 < d for the amount n/d; zero is below it.
BelowSmallThreshold(a) == Abs(a.n) <= (a.d - 1) \div scientificThreshold

\* abs.toExponential(k - 1).split('e') for a finite non-zero amount.
Exponential(a, k) == SigDigits(Abs(a.n), a.d, k)

maxSignificantDigits == 7

formatAmount(value) ==
  LET sign == IF value.n < 0 THEN << "-" >> ELSE << >>
      sci == Exponential(value, maxSignificantDigits)
      prec == SigDigits(Abs(value.n), value.d, 15)
      chars == DigitChars(prec.digits)
      zeros == [i \in 1..(-prec.e - 1) |-> "0"]
  IN  CASE ~isFinite(value) -> NonFiniteText(value)
        [] IsZero(value) -> << "0" >>
        [] Abs(value.n) \div value.d >= scientificThreshold \/ BelowSmallThreshold(value) ->
             sign \o WithFraction(<< DigitChar(sci.digits[1]) >>,
                                  TrimZeros(DigitChars(Tail(sci.digits))))
                  \o << "e" >> \o IntText(sci.e)
        [] IsInteger(value) -> withCommas(IntText(value.n))
        [] prec.e < -6 ->
             \* toPrecision(15) in exponent form: nothing is trimmed.
             sign \o << Head(chars), "." >> \o Tail(chars) \o << "e" >> \o IntText(prec.e)
        [] prec.e < 0 ->
             sign \o WithFraction(<< "0" >>, TrimZeros(zeros \o chars))
        [] OTHER ->
             sign \o WithFraction(GroupDigits(SubSeq(chars, 1, prec.e + 1)),
                                  TrimZeros(SubSeq(chars, prec.e + 2, 15)))

formatValue(value) ==
  LET amount == value.amount
      sign == IF amount.n < 0 THEN << "-" >> ELSE << >>
      \* abs.toExponential(2): (0).toExponential(2) is "0.00e+0".
      sci == IF IsZero(amount) THEN [digits |-> << 0, 0, 0 >>, e |-> 0]
             ELSE Exponential(amount, 3)
      mantissa == WithFraction(<< DigitChar(sci.digits[1]) >>,
                               IF Tail(sci.digits) = << 0, 0 >> THEN << >>
                               ELSE DigitChars(Tail(sci.digits)))
      cents == (2 * Abs(amount.n) * 100 + amount.d) \div (2 * amount.d)
      integer == GroupDigits(DigitChars(IntDigits(cents \div 100)))
      fraction == << DigitChar((cents % 100) \div 10), DigitChar(cents % 10) >>
  IN  CASE value.unit # "usd" -> formatAmount(amount)
        [] ~isFinite(amount) -> << "$" >> \o NonFiniteText(amount)
        [] Abs(amount.n) \div amount.d >= scientificThreshold \/ BelowSmallThreshold(amount) ->
             sign \o << "$" >> \o mantissa \o << "e" >> \o IntText(sci.e)
        [] fraction = << "0", "0" >> -> sign \o << "$" >> \o integer
        [] OTHER -> sign \o << "$" >> \o integer \o << "." >> \o fraction

----------------------------------------------------------------------------
(* Statement parser and evaluateLine                                       *)

\* /^[A-Za-z_][A-Za-z0-9_]*$/
identifierPattern(text) ==
  /\ text # << >>
  /\ Head(text) \in Letters
  /\ \A i \in 2..Len(text) : text[i] \in (Letters \cup Digits)

\* parseStatement with the test for a blank right-hand side made before the
\* test of the assignment target.
parseStatementMissingBeforeTarget(source) ==
  LET equalsIndex == indexOf(source, "=")
      left == trim(Slice(source, 0, equalsIndex))
      right == Slice(source, equalsIndex + 1, Len(source))
  IN  IF trim(source) = << >> THEN [kind |-> "empty"]
      ELSE IF equalsIndex = -1 THEN [kind |-> "expr", exprSource |-> source]
      ELSE IF trim(right) = << >> THEN Err("Missing assignment expression", << >>)
      ELSE IF ~identifierPattern(left) THEN Err("Invalid assignment target", << >>)
      ELSE IF includes(right, "=") THEN Err("Unexpected trailing = in assignment", << >>)
      ELSE [kind |-> "assign", name |-> left, exprSource |-> right]

parseStatement(source) ==
  LET equalsIndex == indexOf(source, "=")
      left == trim(Slice(source, 0, equalsIndex))
      right == Slice(source, equalsIndex + 1, Len(source))
  IN  IF trim(source) = << >> THEN [kind |-> "empty"]
      ELSE IF equalsIndex = -1 THEN [kind |-> "expr", exprSource |-> source]
      ELSE IF ~identifierPattern(left) THEN Err("Invalid assignment target", << >>)
      ELSE IF trim(right) = << >> THEN Err("Missing assignment expression", << >>)
      ELSE IF includes(right, "=") THEN Err("Unexpected trailing = in assignment", << >>)
      ELSE [kind |-> "assign", name |-> left, exprSource |-> right]

\* An evaluateLine that stores whatever the expression produced under the
\* assignment target, a failure included.
evaluateStatementAlwaysBinding(parsed, result, env) ==
  CASE parsed.kind = "empty" -> [evaluation |-> [kind |-> "empty"], env |-> env]
    [] parsed.kind = "error" -> [evaluation |-> parsed, env |-> env]
    [] parsed.kind = "expr" ->
         [evaluation |-> [kind |-> "expr", result |-> result], env |-> env]
    [] OTHER ->
         [evaluation |-> [kind |-> "assign", name |-> parsed.name, result |-> result],
          env |-> EnvSet(env, parsed.name,
                         IF result.kind = "value" THEN result.value ELSE Null)]

\* The switch of evaluateLine over the parsed statement, with the result of
\* evaluateExpression on its expression source.
evaluateStatement(parsed, result, env) ==
  CASE parsed.kind = "empty" -> [evaluation |-> [kind |-> "empty"], env |-> env]
    [] parsed.kind = "error" -> [evaluation |-> parsed, env |-> env]
    [] parsed.kind = "expr" ->
         [evaluation |-> [kind |-> "expr", result |-> result], env |-> env]
    [] OTHER ->
         [evaluation |-> [kind |-> "assign", name |-> parsed.name, result |-> result],
          env |-> IF result.kind = "value" THEN EnvSet(env, parsed.name, result.value)
                  ELSE env]

\* An evaluateLine that declares the assignment target, as 0, before it
\* evaluates the right-hand side.
evaluateParsedTargetInScope(parsed, env) ==
  evaluateStatement(parsed,
                    IF parsed.kind = "assign"
                      THEN evaluateExpression(parsed.exprSource,
                                              EnvSet(env, parsed.name, numberValue(Zero)))
                    ELSE IF parsed.kind = "expr"
                      THEN evaluateExpression(parsed.exprSource, env)
                      ELSE [kind |-> "empty"],
                    env)

evaluateParsed(parsed, env) ==
  evaluateStatement(parsed,
                    IF parsed.kind \in {"expr", "assign"}
                      THEN evaluateExpression(parsed.exprSource, env)
                      ELSE [kind |-> "empty"],
                    env)

\* evaluateLine returns the evaluation; `env` is the caller's map after the call.
evaluateLine(code, env) == evaluateParsed(parseStatement(code), env)

----------------------------------------------------------------------------
(* Lines and documents                                                     *)

\* A variant that lets any `#` start the comment, whatever precedes it.
findInlineCommentStartIndexAnyHash(raw) == indexOf(raw, "#")

findInlineCommentStartIndex(raw) ==
  LET starts(i) == raw[i] = "#" /\ (i = 1 \/ raw[i - 1] \in Whitespace)
  IN  IF \E i \in 1..Len(raw) : starts(i)
        THEN (CHOOSE i \in 1..Len(raw) : starts(i) /\ \A j \in 1..(i - 1) : ~starts(j)) - 1
        ELSE -1

CodeNode(text) == [type |-> "code", text |-> text]

CommentNode(text) == [type |-> "comment", text |-> text]

parseLine(raw) ==
  LET commentIndex == findInlineCommentStartIndex(raw)
      before == Slice(raw, 0, commentIndex)
      after == Slice(raw, commentIndex, Len(raw))
  IN  IF trimStart(raw) # << >> /\ Head(trimStart(raw)) = "#"
        THEN [type |-> "line", nodes |-> << CommentNode(raw) >>]
      ELSE IF commentIndex = -1
        THEN [type |-> "line", nodes |-> << CodeNode(raw) >>]
      ELSE [type |-> "line",
            nodes |-> (IF before # << >> THEN << CodeNode(before) >> ELSE << >>)
                        \o << CommentNode(after) >>]

parseDocument(source) ==
  LET raws == split(source, "\n")
  IN  [lines |-> [i \in 1..Len(raws) |-> parseLine(raws[i])]]

getLineCode(line) ==
  Concat([i \in 1..Len(SelectSeq(line.nodes, LAMBDA node : node.type = "code")) |->
            SelectSeq(line.nodes, LAMBDA node : node.type = "code")[i].text])

----------------------------------------------------------------------------
(* Highlighting: the tokens of the mirror                                  *)

\* highlight.ts tests `char === ' ' || char === '\t'`.
RECURSIVE SkipSpacesAndTabs(_, _)
SkipSpacesAndTabs(source, end) ==
  IF end < Len(source) /\ source[end + 1] \in {" ", "\t"}
    THEN SkipSpacesAndTabs(source, end + 1)
    ELSE end

\* source.match(/^[ \t]*([A-Za-z_][A-Za-z0-9_]*)[ \t]*=/): the start and end of
\* the captured name, or -1 and -1 without a match.
assignmentTarget(source) ==
  LET start == SkipSpacesAndTabs(source, 0)
      end == IdentEnd(source, start + 1)
      equals == SkipSpacesAndTabs(source, end)
  IN  IF /\ start < Len(source)
         /\ source[start + 1] \in Letters
         /\ equals < Len(source)
         /\ source[equals + 1] = "="
        THEN [start |-> start, end |-> end]
        ELSE [start |-> -1, end |-> -1]

HighlightToken(type, text) == [type |-> type, text |-> text]

\* A variant whose `$` branch pushes the number without the blanks before it.
RECURSIVE highlightFromSkippingBlanks(_, _, _, _)
highlightFromSkippingBlanks(source, index, tokens, target) ==
  IF index >= Len(source) THEN [tokens |-> tokens, stalled |-> FALSE]
  ELSE
    LET char == source[index + 1]
        blanksEnd == SkipSpacesAndTabs(source, index + 1)
        numberEnd == scanNumericToken(source, index)
        step ==
          CASE char \in {" ", "\t"} ->
                 [end |-> blanksEnd,
                  token |-> HighlightToken("whitespace", Slice(source, index, blanksEnd))]
            [] /\ char = "$"
               /\ blanksEnd < Len(source)
               /\ source[blanksEnd + 1] \in (Digits \cup {"."}) ->
                 [end |-> scanNumericToken(source, blanksEnd),
                  token |-> HighlightToken("number",
                              << "$" >> \o Slice(source, blanksEnd,
                                                 scanNumericToken(source, blanksEnd)))]
            [] char \in (Digits \cup {"."}) ->
                 LET end == IF numberEnd < Len(source) /\ source[numberEnd + 1] = "%"
                              THEN numberEnd + 1 ELSE numberEnd
                 IN  [end |-> end,
                      token |-> HighlightToken("number", Slice(source, index, end))]
            [] char \in Letters ->
                 LET end == IdentEnd(source, index + 1)
                 IN  [end |-> end,
                      token |-> HighlightToken(
                                  IF target.start = index /\ target.end = end
                                    THEN "assignTarget" ELSE "ident",
                                  Slice(source, index, end))]
            [] char \in {"(", ")"} ->
                 [end |-> index + 1, token |-> HighlightToken("paren", << char >>)]
            [] char \in {"+", "-", "*", "/", "^", "=", ","} ->
                 [end |-> index + 1, token |-> HighlightToken("operator", << char >>)]
            [] OTHER ->
                 [end |-> index + 1, token |-> HighlightToken("unknown", << char >>)]
    IN  IF step.end <= index
          THEN [tokens |-> Append(tokens, step.token), stalled |-> TRUE]
          ELSE highlightFromSkippingBlanks(source, step.end, Append(tokens, step.token), target)

\* The loop of tokenizeForHighlight from `index` on. A step that leaves
\* `index` where it was would repeat for ever: `stalled` records it.
RECURSIVE highlightFrom(_, _, _, _)
highlightFrom(source, index, tokens, target) ==
  IF index >= Len(source) THEN [tokens |-> tokens, stalled |-> FALSE]
  ELSE
    LET char == source[index + 1]
        blanksEnd == SkipSpacesAndTabs(source, index + 1)
        numberEnd == scanNumericToken(source, index)
        step ==
          CASE char \in {" ", "\t"} ->
                 [end |-> blanksEnd,
                  token |-> HighlightToken("whitespace", Slice(source, index, blanksEnd))]
            [] /\ char = "$"
               /\ blanksEnd < Len(source)
               /\ source[blanksEnd + 1] \in (Digits \cup {"."}) ->
                 [end |-> scanNumericToken(source, blanksEnd),
                  token |-> HighlightToken("number",
                              Slice(source, index, scanNumericToken(source, blanksEnd)))]
            [] char \in (Digits \cup {"."}) ->
                 LET end == IF numberEnd < Len(source) /\ source[numberEnd + 1] = "%"
                              THEN numberEnd + 1 ELSE numberEnd
                 IN  [end |-> end,
                      token |-> HighlightToken("number", Slice(source, index, end))]
            [] char \in Letters ->
                 LET end == IdentEnd(source, index + 1)
                 IN  [end |-> end,
                      token |-> HighlightToken(
                                  IF target.start = index /\ target.end = end
                                    THEN "assignTarget" ELSE "ident",
                                  Slice(source, index, end))]
            [] char \in {"(", ")"} ->
                 [end |-> index + 1, token |-> HighlightToken("paren", << char >>)]
            [] char \in {"+", "-", "*", "/", "^", "=", ","} ->
                 [end |-> index + 1, token |-> HighlightToken("operator", << char >>)]
            [] OTHER ->
                 [end |-> index + 1, token |-> HighlightToken("unknown", << char >>)]
    IN  IF step.end <= index
          THEN [tokens |-> Append(tokens, step.token), stalled |-> TRUE]
          ELSE highlightFrom(source, step.end, Append(tokens, step.token), target)

tokenizeForHighlight(source) == highlightFrom(source, 0, << >>, assignmentTarget(source))

----------------------------------------------------------------------------
(* Units of measure: the words of a unit                                   *)

UpperCaseLetters ==
  << "A", "B", "C", "D", "E", "F", "G", "H", "I", "J", "K", "L", "M",
     "N", "O", "P", "Q", "R", "S", "T", "U", "V", "W", "X", "Y", "Z" >>

LowerCaseLetters ==
  << "a", "b", "c", "d", "e", "f", "g", "h", "i", "j", "k", "l", "m",
     "n", "o", "p", "q", "r", "s", "t", "u", "v", "w", "x", "y", "z" >>

toLowerCase(s) ==
  [i \in 1..Len(s) |->
     IF \E k \in 1..26 : UpperCaseLetters[k] = s[i]
       THEN LowerCaseLetters[CHOOSE k \in 1..26 : UpperCaseLetters[k] = s[i]]
       ELSE s[i]]

\* prefixByWord: the own keys of the object and their powers.
prefixWords ==
  << [word |-> << "s", "q" >>, power |-> 2],
     [word |-> << "s", "q", "u", "a", "r", "e" >>, power |-> 2],
     [word |-> << "c", "u" >>, power |-> 3],
     [word |-> << "c", "u", "b", "i", "c" >>, power |-> 3],
     [word |-> << "c", "b" >>, power |-> 3] >>

\* prefixByWord[word], with 0 for undefined: the callers test `if (prefixPower)`.
prefixByWord(word) ==
  IF \E k \in 1..Len(prefixWords) : prefixWords[k].word = word
    THEN prefixWords[CHOOSE k \in 1..Len(prefixWords) : prefixWords[k].word = word].power
    ELSE 0

normalizeUnitWord(raw) == toLowerCase(trim(raw))

\* The tests of normalizeBaseUnitWord in their order: the words of each unit,
\* the first of them being the identifier that is returned.
unitWords ==
  << << << "m" >>, << "m", "e", "t", "e", "r" >>, << "m", "e", "t", "e", "r", "s" >>,
        << "m", "e", "t", "r", "e" >>, << "m", "e", "t", "r", "e", "s" >> >>,
     << << "c", "m" >>, << "c", "e", "n", "t", "i", "m", "e", "t", "e", "r" >>,
        << "c", "e", "n", "t", "i", "m", "e", "t", "e", "r", "s" >> >>,
     << << "m", "m" >>, << "m", "i", "l", "l", "i", "m", "e", "t", "e", "r" >>,
        << "m", "i", "l", "l", "i", "m", "e", "t", "e", "r", "s" >> >>,
     << << "k", "m" >>, << "k", "i", "l", "o", "m", "e", "t", "e", "r" >>,
        << "k", "i", "l", "o", "m", "e", "t", "e", "r", "s" >> >>,
     << << "i", "n", "c", "h" >>, << "i", "n", "c", "h", "e", "s" >> >>,
     << << "f", "t" >>, << "f", "o", "o", "t" >>, << "f", "e", "e", "t" >> >>,
     << << "y", "d" >>, << "y", "a", "r", "d" >>, << "y", "a", "r", "d", "s" >> >>,
     << << "m", "i" >>, << "m", "i", "l", "e" >>, << "m", "i", "l", "e", "s" >> >>,
     << << "l" >>, << "l", "i", "t", "e", "r" >>, << "l", "i", "t", "e", "r", "s" >>,
        << "l", "i", "t", "r", "e" >>, << "l", "i", "t", "r", "e", "s" >> >>,
     << << "m", "l" >>, << "m", "i", "l", "l", "i", "l", "i", "t", "e", "r" >>,
        << "m", "i", "l", "l", "i", "l", "i", "t", "e", "r", "s" >> >>,
     << << "g", "a", "l" >>, << "g", "a", "l", "l", "o", "n" >>,
        << "g", "a", "l", "l", "o", "n", "s" >> >>,
     << << "q", "t" >>, << "q", "u", "a", "r", "t" >>, << "q", "u", "a", "r", "t", "s" >> >>,
     << << "p", "t" >>, << "p", "i", "n", "t" >>, << "p", "i", "n", "t", "s" >> >>,
     << << "c", "u", "p" >>, << "c", "u", "p", "s" >> >>,
     << << "t", "b", "s", "p" >>, << "t", "a", "b", "l", "e", "s", "p", "o", "o", "n" >>,
        << "t", "a", "b", "l", "e", "s", "p", "o", "o", "n", "s" >> >>,
     << << "t", "s", "p" >>, << "t", "e", "a", "s", "p", "o", "o", "n" >>,
        << "t", "e", "a", "s", "p", "o", "o", "n", "s" >> >>,
     << << "h", "e", "c", "t", "a", "r", "e" >>, << "h", "e", "c", "t", "a", "r", "e", "s" >> >>,
     << << "a", "c", "r", "e" >>, << "a", "c", "r", "e", "s" >> >>,
     << << "a", "r", "e" >>, << "a", "r", "e", "s" >> >>,
     << << "k" >>, << "k", "e", "l", "v", "i", "n" >>, << "k", "e", "l", "v", "i", "n", "s" >> >>,
     << << "c" >>, << "c", "e", "l", "s", "i", "u", "s" >> >>,
     << << "f" >>, << "f", "a", "h", "r", "e", "n", "h", "e", "i", "t" >> >> >>

\* The null of normalizeBaseUnitWord, which its callers test with `!base`.
NoWord == << >>

normalizeBaseUnitWord(raw) ==
  LET word == normalizeUnitWord(raw)
      rows == {k \in 1..Len(unitWords) : \E j \in 1..Len(unitWords[k]) : unitWords[k][j] = word}
  IN  IF rows = {} THEN NoWord ELSE unitWords[CHOOSE k \in rows : TRUE][1]

PowerDigit(power) == IF power = 2 THEN "2" ELSE "3"

\* raw.match(/^([a-z]+)([23])$/i)
parsePowerSuffix(raw) ==
  IF /\ Len(raw) >= 2
     /\ raw[Len(raw)] \in {"2", "3"}
     /\ \A i \in 1..(Len(raw) - 1) : raw[i] \in (Letters \ {"_"})
    THEN [base |-> normalizeUnitWord(SubSeq(raw, 1, Len(raw) - 1)),
          power |-> IF raw[Len(raw)] = "2" THEN 2 ELSE 3]
    ELSE Null

\* The units that parseUnitWords gives no power to.
IsAreaUnit(base) ==
  base \in {<< "h", "e", "c", "t", "a", "r", "e" >>, << "a", "c", "r", "e" >>, << "a", "r", "e" >>}

IsTemperatureUnit(base) == base \in {<< "k" >>, << "c" >>, << "f" >>}

IsVolumeUnit(base) ==
  base \in {<< "l" >>, << "m", "l" >>, << "g", "a", "l" >>, << "q", "t" >>, << "p", "t" >>}

UnitWords(unit, consumed) == [unit |-> unit, consumed |-> consumed]

\* A variant that takes the power of the prefix whatever the suffix says.
parseUnitWordsIgnoringSuffix(words) ==
  IF Len(words) = 0 THEN Null
  ELSE
    LET first == normalizeUnitWord(words[1])
        prefixPower == prefixByWord(first)
        withSuffix == parsePowerSuffix(first)
    IN  IF prefixPower # 0
          THEN IF Len(words) < 2 THEN Null
               ELSE LET baseWordRaw == words[2]
                        baseWithSuffix == parsePowerSuffix(baseWordRaw)
                    IN  IF baseWithSuffix # Null
                          THEN LET base == normalizeBaseUnitWord(baseWithSuffix.base)
                               IN  IF base = NoWord THEN Null
                                   ELSE UnitWords(base \o << PowerDigit(prefixPower) >>, 2)
                        ELSE LET base == normalizeBaseUnitWord(baseWordRaw)
                             IN  IF base = NoWord THEN Null
                                 ELSE IF IsAreaUnit(base) THEN Null
                                 ELSE IF IsTemperatureUnit(base) THEN Null
                                 ELSE IF IsVolumeUnit(base) THEN Null
                                 ELSE UnitWords(base \o << PowerDigit(prefixPower) >>, 2)
        ELSE IF withSuffix # Null
          THEN LET base == normalizeBaseUnitWord(withSuffix.base)
               IN  IF base = NoWord THEN Null
                   ELSE IF IsTemperatureUnit(base) THEN Null
                   ELSE IF IsAreaUnit(base) THEN Null
                   ELSE IF IsVolumeUnit(base) THEN Null
                   ELSE UnitWords(base \o << PowerDigit(withSuffix.power) >>, 1)
        ELSE LET base == normalizeBaseUnitWord(first)
             IN  IF base = NoWord THEN Null ELSE UnitWords(base, 1)

parseUnitWords(words) ==
  IF Len(words) = 0 THEN Null
  ELSE
    LET first == normalizeUnitWord(words[1])
        prefixPower == prefixByWord(first)
        withSuffix == parsePowerSuffix(first)
    IN  IF prefixPower # 0
          THEN IF Len(words) < 2 THEN Null
               ELSE LET baseWordRaw == words[2]
                        baseWithSuffix == parsePowerSuffix(baseWordRaw)
                    IN  IF baseWithSuffix # Null
                          THEN LET base == normalizeBaseUnitWord(baseWithSuffix.base)
                               IN  IF base = NoWord THEN Null
                                   ELSE IF baseWithSuffix.power # prefixPower THEN Null
                                   ELSE UnitWords(base \o << PowerDigit(prefixPower) >>, 2)
                        ELSE LET base == normalizeBaseUnitWord(baseWordRaw)
                             IN  IF base = NoWord THEN Null
                                 ELSE IF IsAreaUnit(base) THEN Null
                                 ELSE IF IsTemperatureUnit(base) THEN Null
                                 ELSE IF IsVolumeUnit(base) THEN Null
                                 ELSE UnitWords(base \o << PowerDigit(prefixPower) >>, 2)
        ELSE IF withSuffix # Null
          THEN LET base == normalizeBaseUnitWord(withSuffix.base)
               IN  IF base = NoWord THEN Null
                   ELSE IF IsTemperatureUnit(base) THEN Null
                   ELSE IF IsAreaUnit(base) THEN Null
                   ELSE IF IsVolumeUnit(base) THEN Null
                   ELSE UnitWords(base \o << PowerDigit(withSuffix.power) >>, 1)
        ELSE LET base == normalizeBaseUnitWord(first)
             IN  IF base = NoWord THEN Null ELSE UnitWords(base, 1)

\* tryGetTemperatureInfo: the info without its two conversion functions.
tryGetTemperatureInfo(unit) ==
  LET key == normalizeUnitWord(unit)
  IN  CASE key = << "k" >> -> [kind |-> "temperature", unit |-> key, display |-> << "K" >>]
        [] key = << "c" >> -> [kind |-> "temperature", unit |-> key, display |-> << "°", "C" >>]
        [] key = << "f" >> -> [kind |-> "temperature", unit |-> key, display |-> << "°", "F" >>]
        [] OTHER -> Null

\* The keys of specialArea and of specialVolume.
specialArea ==
  {<< "h", "e", "c", "t", "a", "r", "e" >>, << "a", "r", "e" >>, << "a", "c", "r", "e" >>}

specialVolume ==
  {<< "l" >>, << "m", "l" >>, << "g", "a", "l" >>, << "q", "t" >>, << "p", "t" >>,
   << "c", "u", "p" >>, << "t", "b", "s", "p" >>, << "t", "s", "p" >>}

\* The keys of lengthToMeters, the bases of /^(m|cm|mm|km|inch|ft|yd|mi)([23])?$/.
lengthToMeters ==
  {<< "m" >>, << "c", "m" >>, << "m", "m" >>, << "k", "m" >>, << "i", "n", "c", "h" >>,
   << "f", "t" >>, << "y", "d" >>, << "m", "i" >>}

MeasureInfo(unit, power, display) ==
  [kind |-> "measure", unit |-> unit, power |-> power, display |-> display]

\* tryGetMeasureInfo: the info without toBase, its factor to the base unit.
tryGetMeasureInfo(unit) ==
  LET normalized == normalizeUnitWord(unit)
      stem == SubSeq(normalized, 1, Len(normalized) - 1)
      powered == /\ Len(normalized) >= 2
                 /\ normalized[Len(normalized)] \in {"2", "3"}
                 /\ stem \in lengthToMeters
      base == IF powered THEN stem ELSE normalized
      power == IF ~powered THEN 1 ELSE IF normalized[Len(normalized)] = "2" THEN 2 ELSE 3
      displayBase == IF base = << "i", "n", "c", "h" >> THEN << "i", "n" >> ELSE base
  IN  CASE normalized \in specialArea ->
             MeasureInfo(normalized, 2,
                         IF normalized = << "a", "r", "e" >> THEN << "a" >> ELSE normalized)
        [] normalized \in specialVolume ->
             MeasureInfo(normalized, 3,
                         CASE normalized = << "l" >> -> << "L" >>
                           [] normalized = << "m", "l" >> -> << "m", "L" >>
                           [] OTHER -> normalized)
        [] ~powered /\ normalized \notin lengthToMeters -> Null
        [] OTHER ->
             MeasureInfo(normalized, power,
                         IF power = 1 THEN displayBase
                         ELSE displayBase \o << "^", PowerDigit(power) >>)

----------------------------------------------------------------------------
(* The editor: state                                                       *)

VARIABLES
  inputValue,                 \* input.value, the text of the textarea
  lastValidValues,            \* per line: the last value it evaluated to, or Null
  lastValidAssignments,       \* per line: the last (name, value) it assigned, or Null
  activeLineIndex,
  hasFocus,
  latestComputations,         \* per line: code, displayValue, hasError, errorMessage
  revealedErrorLineIndices,
  activeLineIdleTimer,        \* Null, or the line and version the pending timer captured
  activeLineActivityVersion,
  errorLines,                 \* the lines whose code spans carry the tok-error class
  framePending,               \* the requestAnimationFrame pass of the constructor is due
  passTrace,                  \* history: what the last pass did on each line
  lastEvent,                  \* history: the handler that ran last
  edits,                      \* history: the number of input events so far
  tooltip,                    \* the tooltip element, its line, timers and pending request
  pointer,                    \* history: the line under the pointer, NoLine for none
  programEnv,                 \* the Map a caller of evaluateLine passes to each call
  programLog,                 \* history: the evaluateLine calls made with that Map
  exprShape,                  \* the expression evaluateExpression is called with
  exprResult,                 \* what the call returned, Null before it returns
  exprSource,                 \* the text formatValue returned, Null before it returns
  documentsState,             \* createApp: activeId and the list of documents
  localStorage,               \* the item stored under documentsStorageKey, or Null
  createdCount,               \* history: the number of documents createDocument made
  lastOperation               \* history: the operation of the app that ran last

editorVars ==
  << inputValue, lastValidValues, lastValidAssignments, activeLineIndex, hasFocus,
     latestComputations, revealedErrorLineIndices, activeLineIdleTimer,
     activeLineActivityVersion, errorLines, framePending, passTrace, lastEvent, edits,
     tooltip, pointer >>

languageVars == << programEnv, programLog, exprShape, exprResult, exprSource >>

appVars == << documentsState, localStorage, createdCount, lastOperation >>

activeLineIdleDelayMs == 2000

total == << "t", "o", "t", "a", "l" >>

Min(a, b) == IF a < b THEN a ELSE b

Max(a, b) == IF a > b THEN a ELSE b

\* A fresh array of nulls: nothing of the last pass is kept.
resizeArrayDroppingAll(array, nextLength) ==
  [index \in 1..nextLength |-> Null]

\* Array.from({ length }, (_, index) => index < array.length ? array[index] : null)
resizeArray(array, nextLength) ==
  [index \in 1..nextLength |-> IF index <= Len(array) THEN array[index] ELSE Null]

\* getCaretLineIndex: the number of newlines before the caret.
getCaretLineIndex(text, selectionStart) ==
  Cardinality({index \in 1..Min(selectionStart, Len(text)) : text[index] = "\n"})

\* A test that never shows the error of the active line.
shouldShowErrorForLineNeverActive(lineIndex, computations, focus, active, revealed) ==
  CASE lineIndex >= Len(computations) -> FALSE
    [] ~computations[lineIndex + 1].hasError -> FALSE
    [] OTHER -> lineIndex # active

shouldShowErrorForLine(lineIndex, computations, focus, active, revealed) ==
  CASE lineIndex >= Len(computations) -> FALSE
    [] ~computations[lineIndex + 1].hasError -> FALSE
    [] ~focus -> TRUE
    [] lineIndex # active -> TRUE
    [] OTHER -> lineIndex \in revealed

\* applyErrorDecorations: the class is toggled on every mirror line.
applyErrorDecorations(computations, focus, active, revealed) ==
  {lineIndex \in 0..(Len(computations) - 1) :
     shouldShowErrorForLine(lineIndex, computations, focus, active, revealed)}

----------------------------------------------------------------------------
(* The document pass                                                       *)

\* errorMessage: null
NoMessage == << >>

resultKindOf(evaluation) ==
  CASE evaluation.kind \in {"expr", "assign"} -> evaluation.result.kind
    [] evaluation.kind = "error" -> "error"
    [] OTHER -> "empty"

errorMessageOf(evaluation) ==
  CASE evaluation.kind = "error" -> evaluation.error
    [] evaluation.kind \in {"expr", "assign"} /\ evaluation.result.kind = "error" ->
         evaluation.result.error
    [] OTHER -> NoMessage

\* A fold that leaves out the isTotalOnlyExpression test: a bare `total` line
\* adds its own value to the block total.
foldTotalCountingItself(code, evaluation, blockTotal) ==
  IF /\ evaluation.kind \in {"expr", "assign"}
     /\ evaluation.result.kind = "value"
     /\ addValues(blockTotal, evaluation.result.value).kind = "value"
    THEN addValues(blockTotal, evaluation.result.value).value
    ELSE blockTotal

\* A fold that leaves out every assignment, besides the bare `total` line.
foldTotalSkippingAssignments(code, evaluation, blockTotal) ==
  IF /\ evaluation.kind = "expr"
     /\ evaluation.result.kind = "value"
     /\ trim(code) # total
     /\ addValues(blockTotal, evaluation.result.value).kind = "value"
    THEN addValues(blockTotal, evaluation.result.value).value
    ELSE blockTotal

\* valueForTotal and the fold of it into blockTotal: the block total after the
\* line.
foldTotal(code, evaluation, blockTotal) ==
  IF /\ evaluation.kind \in {"expr", "assign"}
     /\ evaluation.result.kind = "value"
     /\ trim(code) # total
     /\ addValues(blockTotal, evaluation.result.value).kind = "value"
    THEN addValues(blockTotal, evaluation.result.value).value
    ELSE blockTotal

\* The body of the callback of documentAst.lines.map in sync once the line is
\* evaluated: `evaluated` is what evaluateLine returned and left in the env.
recordLine(code, hasComment, index, acc, blockTotal, envWithTotal, evaluated, shouldApplyAssignmentFallback) ==
  LET hasEquals == includes(code, "=")
      assignments0 == IF ~hasEquals
                        THEN [acc.lastValidAssignments EXCEPT ![index + 1] = Null]
                        ELSE acc.lastValidAssignments
      evaluation == evaluated.evaluation
      resultKind == resultKindOf(evaluation)
      values1 ==
        CASE evaluation.kind = "empty" -> [acc.lastValidValues EXCEPT ![index + 1] = Null]
          [] evaluation.kind = "expr" /\ evaluation.result.kind = "value" ->
               [acc.lastValidValues EXCEPT ![index + 1] = evaluation.result.value]
          [] evaluation.kind = "expr" /\ evaluation.result.kind = "empty" ->
               [acc.lastValidValues EXCEPT ![index + 1] = Null]
          [] evaluation.kind = "assign" /\ evaluation.result.kind = "value" ->
               [acc.lastValidValues EXCEPT ![index + 1] = evaluation.result.value]
          [] OTHER -> acc.lastValidValues
      assignments1 ==
        CASE evaluation.kind = "empty" -> [assignments0 EXCEPT ![index + 1] = Null]
          [] evaluation.kind = "assign" /\ evaluation.result.kind = "value" ->
               [assignments0 EXCEPT ![index + 1] =
                  [name |-> evaluation.name, value |-> evaluation.result.value]]
          [] OTHER -> assignments0
      fallback == assignments1[index + 1]
      failed == \/ evaluation.kind = "assign" /\ evaluation.result.kind = "error"
                \/ evaluation.kind = "error"
      appliesFallback ==
        failed /\ shouldApplyAssignmentFallback /\ fallback # Null /\ hasEquals
      env1 == IF appliesFallback THEN EnvSet(evaluated.env, fallback.name, fallback.value)
              ELSE evaluated.env
      blockTotal1 == foldTotal(code, evaluation, blockTotal)
      displayValue == IF values1[index + 1] = Null THEN << >>
                      ELSE formatValue(values1[index + 1])
      hasError == resultKind = "error" /\ trim(code) # << >>
  IN  [env |-> env1,
       blockTotal |-> blockTotal1,
       lastValidValues |-> values1,
       lastValidAssignments |-> assignments1,
       computations |->
         Append(acc.computations,
                [code |-> code, displayValue |-> displayValue, hasError |-> hasError,
                 errorMessage |-> IF hasError THEN errorMessageOf(evaluation) ELSE NoMessage]),
       trace |->
         Append(acc.trace,
                [code |-> code, hasComment |-> hasComment, evaluation |-> evaluation,
                 boundTotal |-> blockTotal, totalAfter |-> blockTotal1,
                 envBefore |-> envWithTotal, envAfter |-> env1,
                 fallbackApplied |-> appliesFallback])]

\* The head of the callback: the block total is reset on a blank line without
\* a comment, bound to `total`, and the line is evaluated.
evaluateCode(code, hasComment, index, acc, blockTotal, shouldApplyAssignmentFallback) ==
  recordLine(code, hasComment, index, acc, blockTotal,
             EnvSet(acc.env, total, blockTotal),
             evaluateLine(code, EnvSet(acc.env, total, blockTotal)),
             shouldApplyAssignmentFallback)

\* A callback for which every line without code ends the block, a
\* comment-only line included.
syncLineBreakingOnComments(line, index, acc, focus, active, revealed) ==
  LET code == getLineCode(line)
      hasComment == \E i \in 1..Len(line.nodes) : line.nodes[i].type = "comment"
      isEmptyLineBreak == trim(code) = << >>
  IN  evaluateCode(code, hasComment, index, acc,
                   IF isEmptyLineBreak THEN numberValue(Zero) ELSE acc.blockTotal,
                   focus /\ index = active /\ index \notin revealed)

\* A callback whose assignment fallback does not ask whether the textarea
\* has focus.
syncLineFallbackWithoutFocus(line, index, acc, focus, active, revealed) ==
  LET code == getLineCode(line)
      hasComment == \E i \in 1..Len(line.nodes) : line.nodes[i].type = "comment"
      isEmptyLineBreak == ~hasComment /\ trim(code) = << >>
  IN  evaluateCode(code, hasComment, index, acc,
                   IF isEmptyLineBreak THEN numberValue(Zero) ELSE acc.blockTotal,
                   index = active /\ index \notin revealed)

\* A callback whose assignment fallback does not ask whether the error of
\* the line has been revealed.
syncLineFallbackOnceRevealed(line, index, acc, focus, active, revealed) ==
  LET code == getLineCode(line)
      hasComment == \E i \in 1..Len(line.nodes) : line.nodes[i].type = "comment"
      isEmptyLineBreak == ~hasComment /\ trim(code) = << >>
  IN  evaluateCode(code, hasComment, index, acc,
                   IF isEmptyLineBreak THEN numberValue(Zero) ELSE acc.blockTotal,
                   focus /\ index = active)

\* The callback of documentAst.lines.map in sync, for the line at `index`
\* (0-based).  `acc` carries what the loop carries from line to line.
syncLine(line, index, acc, focus, active, revealed) ==
  LET code == getLineCode(line)
      hasComment == \E i \in 1..Len(line.nodes) : line.nodes[i].type = "comment"
      isEmptyLineBreak == ~hasComment /\ trim(code) = << >>
  IN  evaluateCode(code, hasComment, index, acc,
                   IF isEmptyLineBreak THEN numberValue(Zero) ELSE acc.blockTotal,
                   focus /\ index = active /\ index \notin revealed)

\* A map over the lines that gives up at the first line in error.
RECURSIVE syncLinesStoppingAtError(_, _, _, _, _, _)
syncLinesStoppingAtError(lines, index, acc, focus, active, revealed) ==
  IF index >= Len(lines) THEN acc
  ELSE IF acc.computations # << >> /\ acc.computations[Len(acc.computations)].hasError
    THEN acc
  ELSE syncLinesStoppingAtError(lines, index + 1,
                                syncLine(lines[index + 1], index, acc, focus, active,
                                         revealed),
                                focus, active, revealed)

RECURSIVE syncLines(_, _, _, _, _, _)
syncLines(lines, index, acc, focus, active, revealed) ==
  IF index >= Len(lines) THEN acc
  ELSE syncLines(lines, index + 1,
                 syncLine(lines[index + 1], index, acc, focus, active, revealed),
                 focus, active, revealed)

\* A reveal loop that reveals every line in error, the active one too.
revealAfterPassRevealingActive(computations, revealed, focus, active) ==
  {index \in 0..(Len(computations) - 1) : computations[index + 1].hasError}

\* A reveal loop that forgets what was revealed before the pass.
revealAfterPassForgetting(computations, revealed, focus, active) ==
  {index \in 0..(Len(computations) - 1) :
     /\ computations[index + 1].hasError
     /\ \/ ~focus
        \/ index # active}

\* The loop after the map in sync: which error lines are revealed.
revealAfterPass(computations, revealed, focus, active) ==
  {index \in 0..(Len(computations) - 1) :
     /\ computations[index + 1].hasError
     /\ \/ index \in revealed
        \/ ~focus
        \/ index # active}

\* The end of sync(): the reveal loop and the decorations, for what the map
\* over the lines produced.
finishPass(done, revealed0, active0, focus) ==
  LET revealed1 == revealAfterPass(done.computations, revealed0, focus, active0)
  IN  [lastValidValues |-> done.lastValidValues,
       lastValidAssignments |-> done.lastValidAssignments,
       activeLineIndex |-> active0,
       revealedErrorLineIndices |-> revealed1,
       latestComputations |-> done.computations,
       errorLines |-> applyErrorDecorations(done.computations, focus, active0, revealed1),
       trace |-> [focus |-> focus, active |-> active0, revealed |-> revealed0,
                  lines |-> done.trace]]

\* sync() from the parsed document on.
syncDocument(lines, values, assignments, revealed0, active0, focus) ==
  finishPass(syncLines(lines, 0,
                       [env |-> EmptyEnv,
                        blockTotal |-> numberValue(Zero),
                        lastValidValues |-> resizeArray(values, Len(lines)),
                        lastValidAssignments |-> resizeArray(assignments, Len(lines)),
                        computations |-> << >>,
                        trace |-> << >>],
                       focus, active0, revealed0),
             revealed0, active0, focus)

\* sync(): the editor state after a pass over `text`.
sync(text, values, assignments, revealed, active, focus) ==
  LET lineCount == Len(parseDocument(text).lines)
  IN  syncDocument(parseDocument(text).lines, values, assignments,
                   {index \in revealed : index >= 0 /\ index < lineCount},
                   Max(0, Min(active, lineCount - 1)),
                   focus)

----------------------------------------------------------------------------
(* The error tooltip                                                       *)

\* tooltipLineIndex = null, and getLineIndexAtClientY returning null.
NoLine == -1

tooltipDelayMs == 300

\* The tooltip of a new editor: hidden, no timer set, nothing pending.
TooltipHidden ==
  [display |-> "none", textContent |-> << >>, lineIndex |-> NoLine,
   showTimer |-> FALSE, hideTimer |-> FALSE, pending |-> Null]

clearTooltipTimers(tip) == [tip EXCEPT !.showTimer = FALSE, !.hideTimer = FALSE]

hideTooltipNow(tip) ==
  LET cleared == [clearTooltipTimers(tip) EXCEPT !.pending = Null, !.lineIndex = NoLine]
  IN  IF tip.display = "none" THEN cleared
      ELSE [cleared EXCEPT !.display = "none", !.textContent = << >>]

showTooltipNow(tip, lineIndex, message) ==
  [clearTooltipTimers(tip) EXCEPT !.pending = Null, !.lineIndex = lineIndex,
                                  !.textContent = message, !.display = "block"]

\* scheduleTooltipShow: the timer is set unless one is already running.
scheduleTooltipShow(tip, lineIndex, message) ==
  [tip EXCEPT !.hideTimer = FALSE,
              !.pending = [lineIndex |-> lineIndex, message |-> message],
              !.showTimer = TRUE]

scheduleTooltipHide(tip) ==
  LET cancelled == [tip EXCEPT !.showTimer = FALSE, !.pending = Null]
  IN  IF tip.display = "none" THEN cancelled
      ELSE [cancelled EXCEPT !.hideTimer = TRUE]

\* The callback of the timer of scheduleTooltipShow, tooltipDelayMs later.
tooltipShowTimerCallback(tip) ==
  IF tip.pending = Null THEN [tip EXCEPT !.showTimer = FALSE]
  ELSE showTooltipNow([tip EXCEPT !.showTimer = FALSE],
                      tip.pending.lineIndex, tip.pending.message)

\* The callback of the timer of scheduleTooltipHide, tooltipDelayMs later.
tooltipHideTimerCallback(tip) == hideTooltipNow([tip EXCEPT !.hideTimer = FALSE])

\* updateTooltipForMouse, for the line getLineIndexAtClientY found.
updateTooltipForMouse(tip, lineIndex, computations, focus, active, revealed) ==
  IF lineIndex = NoLine THEN scheduleTooltipHide(tip)
  ELSE IF \/ lineIndex >= Len(computations)
          \/ computations[lineIndex + 1].errorMessage = NoMessage
          \/ ~shouldShowErrorForLine(lineIndex, computations, focus, active, revealed)
    THEN scheduleTooltipHide(tip)
  ELSE IF tip.display # "none"
    THEN IF tip.lineIndex # lineIndex
           THEN showTooltipNow(tip, lineIndex, computations[lineIndex + 1].errorMessage)
           ELSE tip
  ELSE scheduleTooltipShow(tip, lineIndex, computations[lineIndex + 1].errorMessage)

\* The end of applyErrorDecorations: the tooltip is hidden when its line has
\* no error any more, or has one that is not shown.
decorateTooltip(tip, computations, focus, active, revealed) ==
  IF tip.lineIndex = NoLine THEN tip
  ELSE IF \/ tip.lineIndex >= Len(computations)
          \/ ~computations[tip.lineIndex + 1].hasError
          \/ computations[tip.lineIndex + 1].errorMessage = NoMessage
    THEN hideTooltipNow(tip)
  ELSE IF /\ tip.display # "none"
          /\ ~shouldShowErrorForLine(tip.lineIndex, computations, focus, active, revealed)
    THEN hideTooltipNow(tip)
  ELSE tip

----------------------------------------------------------------------------
(* The editor: texts, handlers                                             *)

MaxEdits == 1

MaxActivityVersion == 5

\* The text of a document whose lines are given.
RECURSIVE JoinLines(_)
JoinLines(lines) ==
  IF Len(lines) = 1 THEN lines[1]
  ELSE lines[1] \o << "\n" >> \o JoinLines(Tail(lines))

L2 == << "2" >>
L3 == << "3" >>
L4 == << "4" >>
LNote == << "#", " ", "n", "o", "t", "e" >>
LTotal == << "t", "o", "t", "a", "l" >>
LBroken == << "1", " ", "+" >>
LFoo1 == << "f", "o", "o", " ", "=", " ", "1" >>
LFoo2 == << "f", "o", "o", " ", "=", " ", "2" >>
LFooBroken == << "f", "o", "o", " ", "=" >>
LFooPlus1 == << "f", "o", "o", " ", "+", " ", "1" >>
LBar == << "b", "a", "r", " ", "=", " ", "f", "o", "o" >>
LFooFromBar == << "f", "o", "o", " ", "=", " ", "b", "a", "r" >>
LBig == << "1", "0", "0", "0", "0", "0", "0", " ", "*", " ", "1", "0" >>

DocErrorThenTotals == JoinLines(<< LBroken, L2, LTotal, LTotal >>)

DocFoo == JoinLines(<< LFoo1, LFooPlus1, << >> >>)

DocFooBroken == JoinLines(<< LFooBroken, LFooPlus1, << >> >>)

DocFooFromBar == JoinLines(<< LFooFromBar, LFooPlus1 >>)

DocBlocks == JoinLines(<< L2, LNote, L3, LTotal, << >>, L4, LTotal >>)

\* The texts an input event can leave in the textarea.
Texts ==
  { DocErrorThenTotals,
    DocFoo,
    DocFooBroken,
    DocFooFromBar,
    JoinLines(<< LFoo2, LBar >>),
    JoinLines(<< L3, LFooPlus1 >>),
    JoinLines(<< LBig, LTotal >>),
    << >> }

\* options.initialValue
InitialValues == { << >>, DocFoo, DocBlocks }

\* The caret offsets an event is drawn with: the start of each line.
CaretChoices(text) == {0} \cup {index \in 1..Len(text) : text[index] = "\n"}

\* resetActiveLineIdleTimer alone: no reveal is scheduled.
resetWithoutSchedule(focus, active, revealed) ==
  [version |-> activeLineActivityVersion + 1, timer |-> Null]

\* resetActiveLineIdleTimer followed by scheduleActiveLineIdleErrorReveal,
\* for the focus state, active line and revealed set they run with.
resetAndSchedule(focus, active, revealed) ==
  LET reset == activeLineActivityVersion + 1
  IN  IF ~focus \/ active \in revealed
        THEN [version |-> reset, timer |-> Null]
        ELSE [version |-> reset + 1,
              timer |-> [versionAtSchedule |-> reset + 1, lineIndexAtSchedule |-> active]]

CanAct == activeLineActivityVersion < MaxActivityVersion

\* The pristine editor of createEditor, before its first sync().
Construct(initialValue) ==
  sync(initialValue, << >>, << >>, {}, 0, FALSE)

\* The editor createEditor returns: its fields after the first sync().
Constructed(initialValue, pass) ==
  /\ inputValue = initialValue
  /\ lastValidValues = pass.lastValidValues
  /\ lastValidAssignments = pass.lastValidAssignments
  /\ activeLineIndex = pass.activeLineIndex
  /\ hasFocus = FALSE
  /\ latestComputations = pass.latestComputations
  /\ revealedErrorLineIndices = pass.revealedErrorLineIndices
  /\ activeLineIdleTimer = Null
  /\ activeLineActivityVersion = 0
  /\ errorLines = pass.errorLines
  /\ framePending = TRUE
  /\ passTrace = pass.trace
  /\ lastEvent = "construct"
  /\ edits = 0
  /\ tooltip = TooltipHidden
  /\ pointer = NoLine

\* No program has been run and no expression evaluated outside the editor.
LanguageIdle ==
  /\ programEnv = EmptyEnv
  /\ programLog = << >>
  /\ exprShape = [form |-> "none"]
  /\ exprResult = Null
  /\ exprSource = Null

\* createApp has not been called.
AppIdle ==
  /\ documentsState = Null
  /\ localStorage = Null
  /\ createdCount = 0
  /\ lastOperation = Null

Init ==
  /\ \E initialValue \in InitialValues :
       Constructed(initialValue, Construct(initialValue))
  /\ LanguageIdle
  /\ AppIdle

\* The pass of sync() from the current state, with the given focus and line.
Pass(text, active, focus) ==
  sync(text, lastValidValues, lastValidAssignments, revealedErrorLineIndices, active, focus)

ApplyPass(pass) ==
  /\ lastValidValues' = pass.lastValidValues
  /\ lastValidAssignments' = pass.lastValidAssignments
  /\ activeLineIndex' = pass.activeLineIndex
  /\ latestComputations' = pass.latestComputations
  /\ revealedErrorLineIndices' = pass.revealedErrorLineIndices
  /\ errorLines' = pass.errorLines
  /\ passTrace' = pass.trace
  /\ tooltip' = decorateTooltip(tooltip, pass.latestComputations, pass.trace.focus,
                                pass.activeLineIndex, pass.revealedErrorLineIndices)

\* The 'input' listener: the text, one of `texts`, and the caret are what
\* the edit left.
InputOf(texts) ==
  /\ CanAct
  /\ edits < MaxEdits
  /\ \E text \in texts : \E selectionStart \in CaretChoices(text) :
       LET next == getCaretLineIndex(text, selectionStart)
           timing == resetAndSchedule(hasFocus, next, revealedErrorLineIndices)
       IN  /\ inputValue' = text
           /\ activeLineActivityVersion' = timing.version
           /\ activeLineIdleTimer' = timing.timer
           /\ ApplyPass(Pass(text, next, hasFocus))
  /\ edits' = edits + 1
  /\ lastEvent' = "input"
  /\ UNCHANGED << hasFocus, framePending, pointer >>
  /\ UNCHANGED << languageVars, appVars >>

Input == InputOf(Texts)

\* handleCursorMove (keyup, mouseup) when the caret is on another line.
CursorMove ==
  /\ CanAct
  /\ \E selectionStart \in CaretChoices(inputValue) :
       LET previous == activeLineIndex
           next == getCaretLineIndex(inputValue, selectionStart)
           timing == resetAndSchedule(hasFocus, next, revealedErrorLineIndices)
           revealed == IF /\ previous < Len(latestComputations)
                          /\ latestComputations[previous + 1].hasError
                         THEN revealedErrorLineIndices \cup {previous}
                         ELSE revealedErrorLineIndices
       IN  /\ previous # next
           /\ activeLineIndex' = next
           /\ activeLineActivityVersion' = timing.version
           /\ activeLineIdleTimer' = timing.timer
           /\ revealedErrorLineIndices' = revealed
           /\ errorLines' = applyErrorDecorations(latestComputations, hasFocus, next, revealed)
           /\ tooltip' = decorateTooltip(tooltip, latestComputations, hasFocus, next, revealed)
  /\ lastEvent' = "cursor"
  /\ UNCHANGED << inputValue, lastValidValues, lastValidAssignments, hasFocus,
                  latestComputations, framePending, passTrace, edits, pointer >>
  /\ UNCHANGED << languageVars, appVars >>

\* The 'focus' listener.
Focus ==
  /\ CanAct
  /\ ~hasFocus
  /\ \E selectionStart \in CaretChoices(inputValue) :
       LET next == getCaretLineIndex(inputValue, selectionStart)
           timing == resetAndSchedule(TRUE, next, revealedErrorLineIndices)
       IN  /\ activeLineIndex' = next
           /\ activeLineActivityVersion' = timing.version
           /\ activeLineIdleTimer' = timing.timer
           /\ errorLines' = applyErrorDecorations(latestComputations, TRUE, next,
                                                  revealedErrorLineIndices)
           /\ tooltip' = decorateTooltip(tooltip, latestComputations, TRUE, next,
                                         revealedErrorLineIndices)
  /\ hasFocus' = TRUE
  /\ lastEvent' = "focus"
  /\ UNCHANGED << inputValue, lastValidValues, lastValidAssignments, latestComputations,
                  revealedErrorLineIndices, framePending, passTrace, edits, pointer >>
  /\ UNCHANGED << languageVars, appVars >>

\* The 'blur' listener.
Blur ==
  /\ CanAct
  /\ hasFocus
  /\ hasFocus' = FALSE
  /\ activeLineActivityVersion' = activeLineActivityVersion + 1
  /\ activeLineIdleTimer' = Null
  /\ LET revealed == revealedErrorLineIndices \cup
                       {index \in 0..(Len(latestComputations) - 1) :
                          latestComputations[index + 1].hasError}
     IN  /\ revealedErrorLineIndices' = revealed
         /\ errorLines' = applyErrorDecorations(latestComputations, FALSE, activeLineIndex,
                                                revealed)
         /\ tooltip' = decorateTooltip(hideTooltipNow(tooltip), latestComputations, FALSE,
                                       activeLineIndex, revealed)
  /\ lastEvent' = "blur"
  /\ UNCHANGED << inputValue, lastValidValues, lastValidAssignments, activeLineIndex,
                  latestComputations, framePending, passTrace, edits, pointer >>
  /\ UNCHANGED << languageVars, appVars >>

\* The callback of the idle timer, activeLineIdleDelayMs after it was set.
IdleTimerFires ==
  /\ activeLineIdleTimer # Null
  /\ activeLineIdleTimer' = Null
  /\ LET reveals == /\ hasFocus
                    /\ activeLineIndex = activeLineIdleTimer.lineIndexAtSchedule
                    /\ activeLineActivityVersion = activeLineIdleTimer.versionAtSchedule
         revealed == IF reveals THEN revealedErrorLineIndices \cup {activeLineIndex}
                     ELSE revealedErrorLineIndices
     IN  /\ revealedErrorLineIndices' = revealed
         /\ errorLines' = IF reveals
                            THEN applyErrorDecorations(latestComputations, hasFocus,
                                                       activeLineIndex, revealed)
                            ELSE errorLines
         /\ tooltip' = IF reveals
                         THEN decorateTooltip(tooltip, latestComputations, hasFocus,
                                              activeLineIndex, revealed)
                         ELSE tooltip
  /\ lastEvent' = "idle"
  /\ UNCHANGED << inputValue, lastValidValues, lastValidAssignments, activeLineIndex,
                  hasFocus, latestComputations, activeLineActivityVersion, framePending,
                  passTrace, edits, pointer >>
  /\ UNCHANGED << languageVars, appVars >>

\* The requestAnimationFrame callback of createEditor: a pass, if the editor
\* has been attached to the document by then.
AnimationFrame ==
  /\ framePending
  /\ framePending' = FALSE
  /\ \E isConnected \in BOOLEAN :
       IF isConnected
         THEN /\ ApplyPass(Pass(inputValue, activeLineIndex, hasFocus))
              /\ lastEvent' = "frame"
         ELSE /\ UNCHANGED << lastValidValues, lastValidAssignments, activeLineIndex,
                              latestComputations, revealedErrorLineIndices, errorLines,
                              passTrace, tooltip >>
              /\ lastEvent' = "detached"
  /\ UNCHANGED << inputValue, hasFocus, activeLineIdleTimer, activeLineActivityVersion,
                  edits, pointer >>
  /\ UNCHANGED << languageVars, appVars >>

Next == Input \/ CursorMove \/ Focus \/ Blur \/ IdleTimerFires \/ AnimationFrame

vars == << editorVars, languageVars, appVars >>

Spec == Init /\ [][Next]_vars

----------------------------------------------------------------------------
(* The editor under the pointer: the listeners of the tooltip              *)

\* The fields of the editor that the pointer, the scroll and the two timers
\* of the tooltip leave alone.
EditorKept ==
  UNCHANGED << inputValue, lastValidValues, lastValidAssignments, activeLineIndex, hasFocus,
               latestComputations, revealedErrorLineIndices, activeLineIdleTimer,
               activeLineActivityVersion, errorLines, framePending, passTrace, edits >>

\* The 'mousemove' listener: the pointer is over a line of the mirror, or
\* over none.
MouseMove ==
  /\ \E lineIndex \in {NoLine} \cup 0..(Len(latestComputations) - 1) :
       /\ pointer' = lineIndex
       /\ tooltip' = updateTooltipForMouse(tooltip, lineIndex, latestComputations, hasFocus,
                                           activeLineIndex, revealedErrorLineIndices)
  /\ lastEvent' = "mousemove"
  /\ EditorKept
  /\ UNCHANGED << languageVars, appVars >>

\* The 'mouseleave' listener.
MouseLeave ==
  /\ pointer' = NoLine
  /\ tooltip' = scheduleTooltipHide(tooltip)
  /\ lastEvent' = "mouseleave"
  /\ EditorKept
  /\ UNCHANGED << languageVars, appVars >>

\* The 'scroll' listener of the textarea, for a scroll of the user.
Scroll ==
  /\ tooltip' = hideTooltipNow(tooltip)
  /\ lastEvent' = "scroll"
  /\ EditorKept
  /\ UNCHANGED << pointer, languageVars, appVars >>

\* tooltipDelayMs after scheduleTooltipShow set its timer.
TooltipShowTimerFires ==
  /\ tooltip.showTimer
  /\ tooltip' = tooltipShowTimerCallback(tooltip)
  /\ lastEvent' = "tooltipShow"
  /\ EditorKept
  /\ UNCHANGED << pointer, languageVars, appVars >>

\* tooltipDelayMs after scheduleTooltipHide set its timer.
TooltipHideTimerFires ==
  /\ tooltip.hideTimer
  /\ tooltip' = tooltipHideTimerCallback(tooltip)
  /\ lastEvent' = "tooltipHide"
  /\ EditorKept
  /\ UNCHANGED << pointer, languageVars, appVars >>

DocErrorThenValue == JoinLines(<< LBroken, L2 >>)

DocTwoErrors == JoinLines(<< LBroken, LBroken >>)

\* The documents the editor under the pointer is created on, and the texts
\* an input event leaves in it.
PointerDocuments == {DocErrorThenValue, DocTwoErrors}

PointerTexts == {DocErrorThenValue, JoinLines(<< L3, L2 >>)}

PointerInit ==
  /\ \E initialValue \in PointerDocuments :
       Constructed(initialValue, Construct(initialValue))
  /\ LanguageIdle
  /\ AppIdle

PointerInput == InputOf(PointerTexts)

PointerNext ==
  \/ PointerInput \/ CursorMove \/ Focus \/ Blur \/ IdleTimerFires \/ AnimationFrame
  \/ MouseMove \/ MouseLeave \/ Scroll \/ TooltipShowTimerFires \/ TooltipHideTimerFires

SpecPointer == PointerInit /\ [][PointerNext]_vars

----------------------------------------------------------------------------
(* The editor created on a document that is read and never edited          *)

MaxLineLen == 4

LineChars == {"#", " ", "1", "+"}

RECURSIVE RawLinesOfLength(_)
RawLinesOfLength(n) ==
  IF n = 0 THEN {<< >>}
  ELSE {Append(line, char) : line \in RawLinesOfLength(n - 1), char \in LineChars}

\* The one-line documents: every short line of code, blanks and `#`.
RawLines == UNION {RawLinesOfLength(n) : n \in 0..MaxLineLen}

L5 == << "5" >>
L7 == << "7" >>
LUsd1 == << "$", "1" >>
LXTotal == << "x", " ", "=", " ", "t", "o", "t", "a", "l" >>
LTotalPlus1 == << "t", "o", "t", "a", "l", " ", "+", " ", "1" >>

DocTotalAssigned == JoinLines(<< L2, L3, LXTotal, LTotal >>)

DocTotalInExpression == JoinLines(<< L2, LTotalPlus1, LTotal, << >>, L4, LTotal >>)

DocUnitInBlock == JoinLines(<< L5, LUsd1, L7, LTotal, << >>, L3, LTotal >>)

\* The documents an editor is created on.
ReadDocuments ==
  RawLines \cup {DocTotalAssigned, DocTotalInExpression, DocUnitInBlock, DocBlocks,
                 DocErrorThenTotals}

ReadInit ==
  /\ \E initialValue \in ReadDocuments :
       Constructed(initialValue, Construct(initialValue))
  /\ LanguageIdle
  /\ AppIdle

ReadNext == CursorMove \/ Focus \/ Blur \/ IdleTimerFires \/ AnimationFrame

SpecRead == ReadInit /\ [][ReadNext]_vars

----------------------------------------------------------------------------
(* The editor whose lines move up and down                                  *)

\* The text after Enter is typed at the start of the text: an empty line is
\* inserted above every line.
LineInsertedAbove(text) == << "\n" >> \o text

\* The text after the first line is deleted with its line break; a text of
\* one line is left as it is.
FirstLineDeleted(text) ==
  IF includes(text, "\n") THEN Slice(text, indexOf(text, "\n") + 1, Len(text)) ELSE text

\* The documents the editor is created on.
ShiftDocuments ==
  { DocErrorThenValue,
    JoinLines(<< L3, LBroken >>),
    JoinLines(<< L2, L3, LTotal >>) }

ShiftInit ==
  /\ \E initialValue \in ShiftDocuments :
       Constructed(initialValue, Construct(initialValue))
  /\ LanguageIdle
  /\ AppIdle

\* The 'input' listener after one of the two edits.
ShiftInput == InputOf({LineInsertedAbove(inputValue), FirstLineDeleted(inputValue)})

ShiftNext ==
  ShiftInput \/ CursorMove \/ Focus \/ Blur \/ IdleTimerFires \/ AnimationFrame

SpecShift == ShiftInit /\ [][ShiftNext]_vars

----------------------------------------------------------------------------
(* The language layer called directly: evaluateLine on one Map              *)

\* The editor of an empty document, which the specifications of the
\* language layer leave alone.
EditorIdle == Constructed(<< >>, Construct(<< >>))

MaxProgramLines == 3

LFooInc == << "f", "o", "o", " ", "=", " ", "f", "o", "o", " ", "+", " ", "1" >>
LBarRef == << "b", "a", "r" >>
LBarBroken == << "b", "a", "r", " ", "=", " ", "1", " ", "/", " ", "0" >>
LTotalAssign == << "t", "o", "t", "a", "l", " ", "=", " ", "2" >>

\* The lines a caller passes to evaluateLine.
ProgramCodes ==
  { LFoo1, LFoo2, LFooInc, LFooFromBar, LBar, LBarRef, LBarBroken, LFooPlus1,
    LFooBroken, LBroken, LTotalAssign, << >> }

ProgramInit ==
  /\ EditorIdle
  /\ AppIdle
  /\ LanguageIdle

\* What one call evaluateLine(code, env) leaves behind.
LineEvaluated(code, evaluated) ==
  /\ programEnv' = evaluated.env
  /\ programLog' = Append(programLog,
                          [code |-> code, evaluation |-> evaluated.evaluation,
                           envBefore |-> programEnv, envAfter |-> evaluated.env])

\* The caller evaluates one more line against its Map.
EvaluateLine ==
  /\ Len(programLog) < MaxProgramLines
  /\ \E code \in ProgramCodes : LineEvaluated(code, evaluateLine(code, programEnv))
  /\ UNCHANGED << appVars, editorVars, exprShape, exprResult, exprSource >>

ProgramNext == EvaluateLine

SpecLine == ProgramInit /\ [][ProgramNext]_vars

----------------------------------------------------------------------------
(* The language layer called directly: evaluateExpression on one source     *)

ExprOperands == {2, 3, 4}

\* The largest finite amount, as a literal.
LargeOperands == {MaxFinite}

BinaryOps == {"+", "-", "*", "/", "^"}

\* The unitless expressions evaluateExpression is given: three operands and
\* two operators, bare or with one pair of parentheses; a negated power, with
\* and without parentheses around the negated operand; two large operands.
\* A power whose exponent is a fraction (a ^ (b / c) with c not dividing b) is
\* left out: its value is irrational, and Pow has no case for it.
ExprShapes ==
  { shape \in [form : {"chain", "left", "right"}, a : ExprOperands, op1 : BinaryOps,
               b : ExprOperands, op2 : BinaryOps, c : ExprOperands] :
      ~(shape.form = "right" /\ shape.op1 = "^" /\ shape.op2 = "/"
          /\ shape.b % shape.c # 0) }
    \cup [form : {"neg", "negParen"}, a : ExprOperands, b : ExprOperands]
    \cup [form : {"pair"}, a : LargeOperands, op1 : BinaryOps, b : LargeOperands]

\* The source text of a shape.
Render(shape) ==
  CASE shape.form = "chain" ->
         IntText(shape.a) \o << " ", shape.op1, " " >> \o IntText(shape.b)
           \o << " ", shape.op2, " " >> \o IntText(shape.c)
    [] shape.form = "left" ->
         << "(" >> \o IntText(shape.a) \o << " ", shape.op1, " " >> \o IntText(shape.b)
           \o << ")", " ", shape.op2, " " >> \o IntText(shape.c)
    [] shape.form = "right" ->
         IntText(shape.a) \o << " ", shape.op1, " ", "(" >> \o IntText(shape.b)
           \o << " ", shape.op2, " " >> \o IntText(shape.c) \o << ")" >>
    [] shape.form = "neg" ->
         << "-" >> \o IntText(shape.a) \o << " ", "^", " " >> \o IntText(shape.b)
    [] shape.form = "negParen" ->
         << "(", "-" >> \o IntText(shape.a) \o << ")", " ", "^", " " >> \o IntText(shape.b)
    [] shape.form = "pair" ->
         IntText(shape.a) \o << " ", shape.op1, " " >> \o IntText(shape.b)
    [] OTHER -> << >>

ExprInit ==
  /\ EditorIdle
  /\ AppIdle
  /\ programEnv = EmptyEnv
  /\ programLog = << >>
  /\ exprShape \in ExprShapes
  /\ exprResult = Null
  /\ exprSource = Null

\* evaluateExpression(source) with the default, empty environment.
Evaluate ==
  /\ exprResult = Null
  /\ exprResult' = evaluateExpression(Render(exprShape), EmptyEnv)
  /\ UNCHANGED << appVars, editorVars, programEnv, programLog, exprShape, exprSource >>

ExprNext == Evaluate

SpecExpr == ExprInit /\ [][ExprNext]_vars

----------------------------------------------------------------------------
(* The language layer called directly: units, literals, formatted values    *)

MaxLiteralLen == 7

MaxGroupLen == 4

UnitOperands == {0, 1, 2, 5, 7, 9}

\* The amounts formatValue is given before its text is evaluated again.
FormatAmounts ==
  { 0, 1, -1, 12, -12, 999, 1000, -1000, 1234, 12345, 123456, 999999,
    MaxFinite, -MaxFinite }

LiteralChars == {"1", ",", "."}

RECURSIVE TextsOfLength(_)
TextsOfLength(n) ==
  IF n = 0 THEN {<< >>}
  ELSE {Append(text, char) : text \in TextsOfLength(n - 1), char \in LiteralChars}

\* Three runs of digits joined by commas: the first run ends in 1, the others
\* are zeros (so a text of three full groups is at most 1,000,000).
GroupedText(lens) ==
  (IF lens[1] = 0 THEN << >> ELSE [i \in 1..(lens[1] - 1) |-> "0"] \o << "1" >>)
    \o << "," >> \o [i \in 1..lens[2] |-> "0"]
    \o << "," >> \o [i \in 1..lens[3] |-> "0"]

\* The texts with commas evaluateExpression is given as a whole expression.
LiteralTexts ==
  { text \in UNION {TextsOfLength(n) : n \in 1..MaxLiteralLen} : includes(text, ",") }
    \cup { GroupedText(lens) : lens \in [1..3 -> 0..MaxGroupLen] }

MaxArguments == 3

\* The names a call is written with: the five functions and one more.
FunctionNames ==
  { << "m", "a", "x" >>, << "m", "i", "n" >>, << "r", "o", "u", "n", "d" >>,
    << "c", "e", "i", "l" >>, << "f", "l", "o", "o", "r" >>, << "n", "o", "p", "e" >> }

\* The operands and arguments an expression is written with: three that
\* evaluate to values and three that fail.
OperandTexts ==
  { << "2" >>, << "$", "2" >>, << "0" >>, << "x" >>, << "y" >>,
    << "(", "1", " ", "/", " ", "0", ")" >> }

\* The operands of an expression with a unary sign in it.
SignedOperands == {1, 2}

\* What evaluateExpression and formatValue are called with: two operands with
\* or without `$` around an operator, max and min of two such operands, a
\* text with commas, a value to format and evaluate again, two operands that
\* may fail around an operator, a call of up to MaxArguments arguments that
\* may fail, and two operands around an operator with a sign before the left
\* one (`-2 ^ 2`), before the right one (`2 ^ -1`) or before the right one in
\* parentheses (`2 ^ (-1)`).
TextShapes ==
  [form : {"units"}, lu : Units, a : UnitOperands, op1 : BinaryOps,
   ru : Units, b : UnitOperands]
    \cup [form : {"call"}, name : {"max", "min"}, lu : Units, a : UnitOperands,
          ru : Units, b : UnitOperands]
    \cup [form : {"literal"}, text : LiteralTexts]
    \cup [form : {"format"}, unit : Units, n : FormatAmounts]
    \cup [form : {"binary"}, left : OperandTexts, op1 : BinaryOps, right : OperandTexts]
    \cup [form : {"apply"}, name : FunctionNames,
          args : UNION {[1..n -> OperandTexts] : n \in 0..MaxArguments}]
    \cup [form : {"signed"}, a : SignedOperands, op1 : BinaryOps, sign : {"+", "-"},
          b : SignedOperands, place : {"left", "right", "rightParen"}]

\* The arguments of a call as they are written, `, ` between them.
RECURSIVE WrittenArguments(_)
WrittenArguments(args) ==
  IF args = << >> THEN << >>
  ELSE IF Len(args) = 1 THEN args[1]
  ELSE args[1] \o << ",", " " >> \o WrittenArguments(Tail(args))

\* An operand as it is written: `$` before the digits of a usd amount.
WrittenOperand(unit, n) == (IF unit = "usd" THEN << "$" >> ELSE << >>) \o IntText(n)

\* The source text of a shape that is written by hand.
Written(shape) ==
  CASE shape.form = "units" ->
         WrittenOperand(shape.lu, shape.a) \o << " ", shape.op1, " " >>
           \o WrittenOperand(shape.ru, shape.b)
    [] shape.form = "call" ->
         (IF shape.name = "max" THEN << "m", "a", "x" >> ELSE << "m", "i", "n" >>)
           \o << "(" >> \o WrittenOperand(shape.lu, shape.a) \o << ",", " " >>
           \o WrittenOperand(shape.ru, shape.b) \o << ")" >>
    [] shape.form = "binary" ->
         shape.left \o << " ", shape.op1, " " >> \o shape.right
    [] shape.form = "apply" ->
         shape.name \o << "(" >> \o WrittenArguments(shape.args) \o << ")" >>
    [] shape.form = "signed" ->
         CASE shape.place = "left" ->
                << shape.sign >> \o IntText(shape.a) \o << " ", shape.op1, " " >>
                  \o IntText(shape.b)
           [] shape.place = "right" ->
                IntText(shape.a) \o << " ", shape.op1, " ", shape.sign >> \o IntText(shape.b)
           [] OTHER ->
                IntText(shape.a) \o << " ", shape.op1, " ", "(", shape.sign >>
                  \o IntText(shape.b) \o << ")" >>
    [] OTHER -> shape.text

Source(text) == [kind |-> "source", text |-> text]

TextInit ==
  /\ EditorIdle
  /\ AppIdle
  /\ programEnv = EmptyEnv
  /\ programLog = << >>
  /\ exprShape \in TextShapes
  /\ exprResult = Null
  /\ exprSource = IF exprShape.form = "format" THEN Null ELSE Source(Written(exprShape))

\* formatValue(value) for the value of a `format` shape.
FormatValue ==
  /\ exprSource = Null
  /\ exprSource' = Source(formatValue(Val(Int2Amount(exprShape.n), exprShape.unit)))
  /\ UNCHANGED << appVars, editorVars, programEnv, programLog, exprShape, exprResult >>

\* evaluateExpression(source) with the default, empty environment.
EvaluateSource ==
  /\ exprSource # Null
  /\ exprResult = Null
  /\ exprResult' = evaluateExpression(exprSource.text, EmptyEnv)
  /\ UNCHANGED << appVars, editorVars, programEnv, programLog, exprShape, exprSource >>

TextNext == FormatValue \/ EvaluateSource

SpecText == TextInit /\ [][TextNext]_vars

----------------------------------------------------------------------------
(* The language layer called directly: parseStatement on one line           *)

MaxStatementLen == 5

StatementChars == {"a", "1", "=", " "}

RECURSIVE LinesOfLength(_)
LinesOfLength(n) ==
  IF n = 0 THEN {<< >>}
  ELSE {Append(line, char) : line \in LinesOfLength(n - 1), char \in StatementChars}

\* The lines parseStatement is given.
StatementShapes ==
  [form : {"statement"}, text : UNION {LinesOfLength(n) : n \in 0..MaxStatementLen}]

StatementInit ==
  /\ EditorIdle
  /\ AppIdle
  /\ programEnv = EmptyEnv
  /\ programLog = << >>
  /\ exprShape \in StatementShapes
  /\ exprResult = Null
  /\ exprSource = Source(exprShape.text)

\* parseStatement(source)
ParseStatement ==
  /\ exprResult = Null
  /\ exprResult' = parseStatement(exprSource.text)
  /\ UNCHANGED << appVars, editorVars, programEnv, programLog, exprShape, exprSource >>

StatementNext == ParseStatement

SpecStatement == StatementInit /\ [][StatementNext]_vars

----------------------------------------------------------------------------
(* The language layer called directly: parseUnitWords on one or two words   *)

\* Every prefix word and every word normalizeBaseUnitWord knows.
RecognisedWords ==
  {prefixWords[k].word : k \in 1..Len(prefixWords)}
    \cup UNION {{unitWords[k][j] : j \in 1..Len(unitWords[k])} : k \in 1..Len(unitWords)}

\* Words written with capitals.
CapitalisedWords == {<< "S", "q" >>, << "C", "M" >>, << "M" >>}

PowerSuffixes == {<< >>, << "2" >>, << "3" >>}

SuffixedWords ==
  {word \o suffix : word \in RecognisedWords \cup CapitalisedWords, suffix \in PowerSuffixes}

\* The word lists parseUnitWords is given.
UnitShapes ==
  [form : {"words"}, words : UNION {[1..n -> SuffixedWords] : n \in {1, 2}}]

getUnitKind(unit) ==
  CASE unit = << "n", "o", "n", "e" >> -> "none"
    [] unit = << "u", "s", "d" >> -> "usd"
    [] unit = << "p", "e", "r", "c", "e", "n", "t" >> -> "percent"
    [] tryGetTemperatureInfo(unit) # Null -> "temperature"
    [] OTHER -> "measure"

UnitsInit ==
  /\ EditorIdle
  /\ AppIdle
  /\ programEnv = EmptyEnv
  /\ programLog = << >>
  /\ exprShape \in UnitShapes
  /\ exprResult = Null
  /\ exprSource = Null

\* parseUnitWords(words)
ParseUnitWords ==
  /\ exprResult = Null
  /\ exprResult' = [parsed |-> parseUnitWords(exprShape.words)]
  /\ UNCHANGED << appVars, editorVars, programEnv, programLog, exprShape, exprSource >>

\* The catalog is asked about the unit that was returned.
LookUpUnit ==
  /\ exprResult # Null
  /\ exprResult.parsed # Null
  /\ exprSource = Null
  /\ exprSource' = [kind |-> getUnitKind(exprResult.parsed.unit),
                    temperature |-> tryGetTemperatureInfo(exprResult.parsed.unit),
                    measure |-> tryGetMeasureInfo(exprResult.parsed.unit)]
  /\ UNCHANGED << appVars, editorVars, programEnv, programLog, exprShape, exprResult >>

UnitsNext == ParseUnitWords \/ LookUpUnit

SpecUnits == UnitsInit /\ [][UnitsNext]_vars

----------------------------------------------------------------------------
(* The language layer called directly: the mirror of one line               *)

MaxCodeLen == 4

MirrorChars == {"#", " ", "$", "1", ",", ".", "%", "a"}

RECURSIVE MirrorLinesOfLength(_)
MirrorLinesOfLength(n) ==
  IF n = 0 THEN {<< >>}
  ELSE {Append(line, char) : line \in MirrorLinesOfLength(n - 1), char \in MirrorChars}

\* Numbers whose commas are followed by three digits, which scanNumericToken
\* reads through.
GroupedTexts ==
  { << "1", ",", "1", "1", "1" >>,
    << "$", " ", "1", ",", "1", "1", "1" >>,
    << "1", ",", "1", "1", "1", "%" >>,
    << "1", ",", "1", "1", "1", ".", "1" >>,
    << "1", ",", "1", "1", "1", ",", "1", "1" >>,
    << "a", "=", "1", ",", "1", "1", "1", " ", "#", "a" >> }

\* The lines parseLine and tokenizeForHighlight are given.
MirrorShapes ==
  [form : {"mirror"},
   text : GroupedTexts \cup UNION {MirrorLinesOfLength(n) : n \in 0..MaxCodeLen}]

MirrorInit ==
  /\ EditorIdle
  /\ AppIdle
  /\ programEnv = EmptyEnv
  /\ programLog = << >>
  /\ exprShape \in MirrorShapes
  /\ exprResult = Null
  /\ exprSource = Source(exprShape.text)

\* parseLine(raw)
ParseLine ==
  /\ exprResult = Null
  /\ exprResult' = [kind |-> "line", line |-> parseLine(exprSource.text)]
  /\ UNCHANGED << appVars, editorVars, programEnv, programLog, exprShape, exprSource >>

\* tokenizeForHighlight(source)
TokenizeForHighlight ==
  /\ exprResult = Null
  /\ exprResult' = [kind |-> "tokens", highlight |-> tokenizeForHighlight(exprSource.text)]
  /\ UNCHANGED << appVars, editorVars, programEnv, programLog, exprShape, exprSource >>

MirrorNext == ParseLine \/ TokenizeForHighlight

SpecMirror == MirrorInit /\ [][MirrorNext]_vars

----------------------------------------------------------------------------
(* The application shell: the documents, their tabs and their storage       *)

MaxDocuments == 3

MaxCreated == 3

\* The contents documents are stored, shared and seeded with.
Contents == { << >>, << "1" >> }

\* The ids of the documents found in storage, and one no document has.
StoredIds == { << "a" >>, << "b" >> }

StrayId == << "z" >>

\* What localStorage holds under documentsStorageKey when the page loads:
\* nothing, a text that is no documents state, or a documents state with any
\* activeId and any list of up to two documents.
StoredValues ==
  { Null, [kind |-> "malformed"] }
    \cup [kind : {"state"},
          activeId : StoredIds \cup {StrayId},
          documents : UNION {[1..n -> [id : StoredIds, content : Contents]] :
                               n \in 0..2}]

\* options.initialValue of createApp, left out by the caller.
defaultInitialValue == << >>

\* createId: the id of the n-th document made, which no other document has.
createId(n) == << "d", "o", "c", "_" >> \o IntText(n)

createDocument(content, n) == [id |-> createId(n), content |-> content]

\* documents.findIndex((doc) => doc.id === id), counted from 1; 0 for -1.
findIndex(documents, id) ==
  IF \E i \in 1..Len(documents) : documents[i].id = id
    THEN CHOOSE i \in 1..Len(documents) :
           documents[i].id = id /\ \A j \in 1..(i - 1) : documents[j].id # id
    ELSE 0

\* documents.find((doc) => doc.content === content), as an index from 1.
findByContent(documents, content) ==
  IF \E i \in 1..Len(documents) : documents[i].content = content
    THEN CHOOSE i \in 1..Len(documents) :
           documents[i].content = content
             /\ \A j \in 1..(i - 1) : documents[j].content # content
    ELSE 0

\* documents.splice(index, 1), index counted from 1.
splice(documents, index) ==
  [i \in 1..(Len(documents) - 1) |-> IF i < index THEN documents[i] ELSE documents[i + 1]]

normalizeLoadedState(value) ==
  IF value.kind = "state"
    THEN [activeId |-> value.activeId, documents |-> value.documents]
    ELSE Null

\* A documents state and the number of documents made on the way to it.
Made(state, created) == [state |-> state, created |-> created]

\* loadDocumentsState(seedContent) with `raw` in storage, when n documents
\* have been made before.
loadDocumentsState(raw, seedContent, n) ==
  LET normalized == IF raw = Null THEN Null ELSE normalizeLoadedState(raw)
      first == createDocument(seedContent, n)
  IN  IF normalized # Null /\ Len(normalized.documents) > 0
        THEN IF findIndex(normalized.documents, normalized.activeId) # 0
               THEN Made(normalized, 0)
               ELSE Made([normalized EXCEPT !.activeId = normalized.documents[1].id], 0)
        ELSE Made([activeId |-> first.id, documents |-> << first >>], 1)

\* The start of createApp: the stored state is loaded and the document of
\* the URL, if there is one, is selected or imported.
createApp(raw, hasShared, sharedContent, seedContent, n) ==
  LET loaded == loadDocumentsState(raw, seedContent, n)
      documents == loaded.state.documents
      existing == findByContent(documents, sharedContent)
      imported == createDocument(sharedContent, n + loaded.created)
  IN  IF ~hasShared THEN loaded
      ELSE IF existing # 0
        THEN Made([loaded.state EXCEPT !.activeId = documents[existing].id], loaded.created)
      ELSE Made([activeId |-> imported.id, documents |-> Append(documents, imported)],
                loaded.created + 1)

\* saveDocumentsState under the try of saveNow: `written` is false when
\* setItem throws, and the stored value stays what it was.
saveNow(state, stored, written) ==
  IF written
    THEN [kind |-> "state", activeId |-> state.activeId, documents |-> state.documents]
    ELSE stored

setActive(state, id) == [state EXCEPT !.activeId = id]

addNewDocument(state, n) ==
  LET doc == createDocument(<< >>, n)
  IN  [activeId |-> doc.id, documents |-> Append(state.documents, doc)]

\* A deleteDocument that leaves activeId as it is when other tabs remain.
deleteDocumentKeepingActiveId(state, id, confirmed, n) ==
  LET index == findIndex(state.documents, id)
      spliced == splice(state.documents, index)
      replacement == createDocument(<< >>, n)
  IN  IF index = 0 \/ ~confirmed THEN Made(state, 0)
      ELSE IF spliced = << >>
        THEN Made([activeId |-> replacement.id, documents |-> << replacement >>], 1)
      ELSE Made([state EXCEPT !.documents = spliced], 0)

\* deleteDocument(id), with the answer window.confirm gives.
deleteDocument(state, id, confirmed, n) ==
  LET index == findIndex(state.documents, id)
      spliced == splice(state.documents, index)
      replacement == createDocument(<< >>, n)
  IN  IF index = 0 \/ ~confirmed THEN Made(state, 0)
      ELSE IF spliced = << >>
        THEN Made([activeId |-> replacement.id, documents |-> << replacement >>], 1)
      ELSE IF state.activeId = id
        THEN Made([activeId |-> spliced[Min(index, Len(spliced))].id,
                   documents |-> spliced], 0)
      ELSE Made([state EXCEPT !.documents = spliced], 0)

\* createApp has returned: the state it built is in documentsState and has
\* been saved.
AppCreated(raw, hasShared, sharedContent, made, n, written) ==
  /\ documentsState = made.state
  /\ localStorage = saveNow(made.state, raw, written \/ made.created > 0)
  /\ createdCount = n + made.created
  /\ lastOperation = [name |-> "createApp", stored |-> raw, hasShared |-> hasShared,
                      sharedContent |-> sharedContent]

TabsInit ==
  /\ EditorIdle
  /\ LanguageIdle
  /\ \E raw \in StoredValues, hasShared \in BOOLEAN, sharedContent \in Contents,
        written \in BOOLEAN :
       AppCreated(raw, hasShared, sharedContent,
                  createApp(raw, hasShared, sharedContent, defaultInitialValue, 0), 0, written)

CanCreate == createdCount < MaxCreated

\* A click on the select button of a tab.
SelectTab ==
  /\ \E i \in 1..Len(documentsState.documents) :
       LET id == documentsState.documents[i].id
       IN  /\ documentsState' = setActive(documentsState, id)
           /\ lastOperation' = [name |-> "setActive", id |-> id, before |-> documentsState]
  /\ UNCHANGED << localStorage, createdCount, editorVars, languageVars >>

\* ArrowLeft, ArrowRight, Home or End on the select button of a tab.
TabKeydown ==
  /\ \E i \in 1..Len(documentsState.documents), key \in {"ArrowLeft", "ArrowRight", "Home", "End"} :
       LET documents == documentsState.documents
           currentIndex == findIndex(documents, documents[i].id)
           nextIndex == CASE key = "ArrowLeft" -> currentIndex - 1
                          [] key = "ArrowRight" -> currentIndex + 1
                          [] key = "Home" -> 1
                          [] OTHER -> Len(documents)
           clamped == Max(1, Min(Len(documents), nextIndex))
       IN  /\ documentsState' = setActive(documentsState, documents[clamped].id)
           /\ lastOperation' = [name |-> "setActive", id |-> documents[clamped].id,
                                before |-> documentsState]
  /\ UNCHANGED << localStorage, createdCount, editorVars, languageVars >>

\* A click on the `+` button.
AddTab ==
  /\ CanCreate
  /\ Len(documentsState.documents) < MaxDocuments
  /\ \E written \in BOOLEAN :
       LET state == addNewDocument(documentsState, createdCount)
       IN  /\ documentsState' = state
           /\ localStorage' = saveNow(state, localStorage, written)
  /\ createdCount' = createdCount + 1
  /\ lastOperation' = [name |-> "addNewDocument", before |-> documentsState]
  /\ UNCHANGED << editorVars, languageVars >>

\* A click on the close button of a tab, or Backspace or Delete on its
\* select button.
CloseTab ==
  /\ CanCreate
  /\ \E i \in 1..Len(documentsState.documents), confirmed \in BOOLEAN, written \in BOOLEAN :
       LET id == documentsState.documents[i].id
           made == deleteDocument(documentsState, id, confirmed, createdCount)
       IN  /\ documentsState' = made.state
           /\ createdCount' = createdCount + made.created
           /\ localStorage' = IF confirmed THEN saveNow(made.state, localStorage, written)
                              ELSE localStorage
           /\ lastOperation' = [name |-> "deleteDocument", id |-> id,
                                confirmed |-> confirmed, before |-> documentsState]
  /\ UNCHANGED << editorVars, languageVars >>

\* The page is loaded again: createApp runs on what storage holds.
Reload ==
  /\ CanCreate
  /\ Len(documentsState.documents) < MaxDocuments
  /\ \E hasShared \in BOOLEAN, sharedContent \in Contents, written \in BOOLEAN :
       LET made == createApp(localStorage, hasShared, sharedContent, defaultInitialValue, createdCount)
       IN  /\ documentsState' = made.state
           /\ localStorage' = saveNow(made.state, localStorage, written \/ made.created > 0)
           /\ createdCount' = createdCount + made.created
           /\ lastOperation' = [name |-> "createApp", stored |-> localStorage,
                                hasShared |-> hasShared, sharedContent |-> sharedContent]
  /\ UNCHANGED << editorVars, languageVars >>

TabsNext == SelectTab \/ TabKeydown \/ AddTab \/ CloseTab \/ Reload

SpecTabs == TabsInit /\ [][TabsNext]_vars

----------------------------------------------------------------------------
(* Claims about the language layer                                          *)

\* The call has produced a value.
Assigned(entry) ==
  entry.evaluation.kind = "assign" /\ entry.evaluation.result.kind = "value"

\* The calls before the k-th that assigned `name` a value.
AssignmentsBefore(log, k, name) ==
  {j \in 1..(k - 1) : Assigned(log[j]) /\ log[j].evaluation.name = name}

\* What the lines before the k-th define: each name some earlier line
\* assigned a value, with the value of the latest such line.
DefinedBefore(log, k) ==
  [name \in {log[j].evaluation.name : j \in {i \in 1..(k - 1) : Assigned(log[i])}} |->
     LET latest == CHOOSE j \in AssignmentsBefore(log, k, name) :
                     \A i \in AssignmentsBefore(log, k, name) : i <= j
     IN  log[latest].evaluation.result.value]

\* The names an expression source refers to.
IdentifiersOf(source) ==
  LET scanned == tokenize(trim(source))
  IN  IF scanned.kind # "tokens" THEN {}
      ELSE {scanned.tokens[i].name :
              i \in {j \in 1..Len(scanned.tokens) : scanned.tokens[j].type = "ident"}}

\* The names the expression of a line refers to.
ReferencedNames(code) ==
  IF parseStatement(code).kind \in {"expr", "assign"}
    THEN IdentifiersOf(parseStatement(code).exprSource)
    ELSE {}

\* C3: in a run of evaluateLine calls over one Map, the k-th line sees exactly
\* the names that earlier lines assigned successfully, each with the value of
\* the latest such line (so not its own target, and nothing a later line
\* assigns), and a line that refers to a name outside them evaluates to the
\* error `Undefined variable: <name>`.
VariablesVisibleToLaterLines ==
  \A k \in 1..Len(programLog) :
    /\ programLog[k].envBefore = DefinedBefore(programLog, k)
    /\ programLog[k].evaluation =
         evaluateLine(programLog[k].code, DefinedBefore(programLog, k)).evaluation
    /\ \A name \in ReferencedNames(programLog[k].code) :
         name \notin DOMAIN DefinedBefore(programLog, k)
           => programLog[k].evaluation.result = Err("Undefined variable: ", name)

\* C3 witness: `foo = 1`, `foo = 2`, `bar = foo` binds bar to 2.
LaterLineSeesLatestAssignment ==
  /\ Len(programLog) = 3
  /\ programLog[1].code = LFoo1
  /\ programLog[2].code = LFoo2
  /\ programLog[3].code = LBar
  /\ programEnv[LBarRef] = numberValue(Int2Amount(2))

\* C4: a call of evaluateLine leaves the Map as it was, unless the line is an
\* assignment whose expression evaluated to a value; then the Map differs at
\* most at the target, which holds that value.
EvaluateLineFrame ==
  \A k \in 1..Len(programLog) :
    LET entry == programLog[k]
    IN  IF Assigned(entry)
          THEN /\ DOMAIN entry.envAfter = DOMAIN entry.envBefore \cup {entry.evaluation.name}
               /\ entry.envAfter[entry.evaluation.name] = entry.evaluation.result.value
               /\ \A key \in DOMAIN entry.envBefore \ {entry.evaluation.name} :
                    entry.envAfter[key] = entry.envBefore[key]
          ELSE entry.envAfter = entry.envBefore

\* C4 witness: after `foo = 1`, one line of each kind that leaves the Map
\* alone has run: a failing assignment, a statement error, a bare expression.
FailedLinesLeftTheMapAlone ==
  /\ Len(programLog) = 3
  /\ programLog[1].code = LFoo1
  /\ \E k \in {2, 3} : programLog[k].code = LBarBroken
  /\ \E k \in {2, 3} : programLog[k].code \in {LFooBroken, LFooPlus1}
  /\ programEnv = EnvSet(EmptyEnv, << "f", "o", "o" >>, numberValue(Int2Amount(1)))

\* The rungs of the ladder.
Level(op) == CASE op \in {"+", "-"} -> 1 [] op \in {"*", "/"} -> 2 [] OTHER -> 3

Operand(n) == ValueResult(numberValue(Int2Amount(n)))

\* A binary operator applied to two evaluated operands, the left one first.
Applied(op, left, right) ==
  IF left.kind # "value" THEN left
  ELSE IF right.kind # "value" THEN right
  ELSE evalBinary(op, left.value, right.value)

Negated(inner) ==
  IF inner.kind # "value" THEN inner ELSE ValueResult(evalUnary("-", inner.value))

\* What the ladder makes of a shape: in `a op1 b op2 c` the second operator
\* takes b when it stands on a higher rung, or when both are `^`.
Expected(shape) ==
  CASE shape.form = "left"
         \/ (shape.form = "chain" /\ Level(shape.op2) <= Level(shape.op1)
               /\ ~(shape.op1 = "^" /\ shape.op2 = "^")) ->
         Applied(shape.op2, Applied(shape.op1, Operand(shape.a), Operand(shape.b)),
                 Operand(shape.c))
    [] shape.form \in {"chain", "right"} ->
         Applied(shape.op1, Operand(shape.a),
                 Applied(shape.op2, Operand(shape.b), Operand(shape.c)))
    [] shape.form = "neg" -> Negated(Applied("^", Operand(shape.a), Operand(shape.b)))
    [] shape.form = "negParen" ->
         Applied("^", Negated(Operand(shape.a)), Operand(shape.b))
    [] shape.form = "pair" -> Applied(shape.op1, Operand(shape.a), Operand(shape.b))

Chain(a, op1, b, op2, c) ==
  [form |-> "chain", a |-> a, op1 |-> op1, b |-> b, op2 |-> op2, c |-> c]

\* C9: evaluation follows the precedence ladder: `*` and `/` above `+` and `-`,
\* all four grouping to the left, `^` above unary minus and grouping to the
\* right, parentheses overriding; 4 + 4 / 2 = 6, 2 * 3 + 4 = 10,
\* 2 * 3 ^ 2 = 18, 2 ^ 3 ^ 2 = 512, -2 ^ 2 = -4, (-2) ^ 2 = 4.
PrecedenceLadder ==
  exprResult # Null =>
    /\ exprResult = Expected(exprShape)
    /\ exprShape = Chain(4, "+", 4, "/", 2) => exprResult = Operand(6)
    /\ exprShape = Chain(2, "*", 3, "+", 4) => exprResult = Operand(10)
    /\ exprShape = Chain(2, "*", 3, "^", 2) => exprResult = Operand(18)
    /\ exprShape = Chain(2, "^", 3, "^", 2) => exprResult = Operand(512)
    /\ exprShape = [form |-> "neg", a |-> 2, b |-> 2] => exprResult = Operand(-4)
    /\ exprShape = [form |-> "negParen", a |-> 2, b |-> 2] => exprResult = Operand(4)

\* C9 witness: `2 ^ 3 ^ 2` has been evaluated, to 512.
RightAssociativePowerEvaluated ==
  /\ Render(exprShape) = << "2", " ", "^", " ", "3", " ", "^", " ", "2" >>
  /\ exprResult = Operand(512)

\* C10: every value evaluateExpression returns has a finite amount.
ReturnedValuesAreFinite ==
  (exprResult # Null /\ exprResult.kind = "value") => isFinite(exprResult.value.amount)

\* C10: the product of the largest finite amount with itself overflows and
\* comes back as a value.
OverflowReturnedAsValue ==
  /\ exprShape = [form |-> "pair", a |-> MaxFinite, op1 |-> "*", b |-> MaxFinite]
  /\ exprResult = ValueResult(numberValue(PosInf))

----------------------------------------------------------------------------
(* Claims about units, literals and formatted values                        *)

\* The operands of a `units` or `call` shape as values.
LeftOperand == Val(Int2Amount(exprShape.a), exprShape.lu)

RightOperand == Val(Int2Amount(exprShape.b), exprShape.ru)

\* evaluateExpression has returned for a shape of the given form.
Evaluated(form) == exprShape.form = form /\ exprResult # Null

\* C11: a division whose right operand has amount 0 is the error
\* `Division by zero` whatever the units of the two operands, also where a
\* non-zero divisor would be a unit mismatch.
DivisionByZeroFirst ==
  (Evaluated("units") /\ exprShape.op1 = "/" /\ exprShape.b = 0)
    => exprResult = Err("Division by zero", << >>)

\* C11 witness: `5 / $0`, a unitless amount over a usd zero, has been
\* evaluated.
UnitlessOverUsdZeroEvaluated ==
  /\ Evaluated("units")
  /\ exprSource.text = << "5", " ", "/", " ", "$", "0" >>
  /\ exprResult = Err("Division by zero", << >>)
  /\ evaluateExpression(<< "5", " ", "/", " ", "$", "2" >>, EmptyEnv)
       = Err("Unit mismatch", << >>)

\* left + right or left - right on amounts.
PlusMinus(op, left, right) == IF op = "+" THEN Add(left, right) ELSE Sub(left, right)

CommonUnit == IF exprShape.lu = "none" THEN exprShape.ru ELSE exprShape.lu

\* C14: max(a, b) and min(a, b) return the larger (smaller) amount carrying
\* the unit the two arguments have after a unitless one is promoted, also
\* when the winning argument was written without a unit (max($5, 7) = $7);
\* on equal amounts the result is the promoted left argument.
ExtremeOfPairCarriesUnit ==
  Evaluated("call")
    => /\ exprResult =
            ValueResult(Val(Int2Amount(IF exprShape.name = "max"
                                         THEN Max(exprShape.a, exprShape.b)
                                         ELSE Min(exprShape.a, exprShape.b)),
                            CommonUnit))
       /\ exprShape.a = exprShape.b
            => exprResult = ValueResult(Val(LeftOperand.amount, CommonUnit))
       /\ exprSource.text = << "m", "a", "x", "(", "$", "5", ",", " ", "7", ")" >>
            => exprResult = ValueResult(usdValue(Int2Amount(7)))

\* C14 witness: max($5, 7) has been evaluated to $7, the amount of the
\* unitless argument with the unit of the other.
MaxTookUnitlessWinner ==
  /\ Evaluated("call")
  /\ exprSource.text = << "m", "a", "x", "(", "$", "5", ",", " ", "7", ")" >>
  /\ exprResult = ValueResult(usdValue(Int2Amount(7)))

\* The place of the decimal point in a text, one past its end when it has
\* none.
PointOf(text) ==
  IF includes(text, ".")
    THEN CHOOSE i \in 1..Len(text) : text[i] = "." /\ \A j \in 1..(i - 1) : text[j] # "."
    ELSE Len(text) + 1

\* The text is a number with well-placed commas: before the decimal point a
\* first group of 1 to 3 digits and then groups of exactly 3 digits, each
\* after a comma; after the decimal point digits only.
WellGrouped(text) ==
  LET point == PointOf(text)
      integer == SubSeq(text, 1, point - 1)
  IN  /\ Len(integer) % 4 # 0
      /\ \A i \in 1..Len(integer) :
           IF (Len(integer) - i) % 4 = 3 THEN integer[i] = "," ELSE integer[i] \in Digits
      /\ \A i \in (point + 1)..Len(text) : text[i] \in Digits

\* The value of the digits of a well-grouped text, its commas removed.
DigitsValue(text) ==
  Rat(DigitsToInt(SelectSeq(text, LAMBDA c : c \in Digits), 0),
      PowerOfTen(IF includes(text, ".") THEN Len(text) - PointOf(text) ELSE 0))

\* C15: a text with commas given as a whole expression evaluates to a value
\* exactly when its commas are well placed, and then to the value of its
\* digits with the commas removed; with any other placement of a comma the
\* result is an error.
CommasWellPlacedOrError ==
  Evaluated("literal")
    => IF WellGrouped(exprShape.text)
         THEN exprResult = ValueResult(numberValue(DigitsValue(exprShape.text)))
         ELSE exprResult.kind = "error"

\* C15 witness: `1,000,000`, of three groups, has been evaluated to its
\* value, and `1,000,00` to an error.
ThreeGroupsAccepted ==
  /\ Evaluated("literal")
  /\ exprShape.text = << "1", ",", "0", "0", "0", ",", "0", "0", "0" >>
  /\ exprResult = ValueResult(numberValue(Int2Amount(1000000)))
  /\ evaluateExpression(<< "1", ",", "0", "0", "0", ",", "0", "0" >>, EmptyEnv).kind = "error"

\* The value formatValue was given.
Formatted == Val(Int2Amount(exprShape.n), exprShape.unit)

\* C16: evaluating the text formatValue returned for an integer amount gives
\* back the same amount and the same unit.
FormatRoundTrips ==
  Evaluated("format") => exprResult = ValueResult(Formatted)

\* C16: the text formatValue returned for a usd amount of 0 has been
\* evaluated, and the result is an error where every other amount came back
\* as it was.
UsdZeroDoesNotRoundTrip ==
  /\ Evaluated("format")
  /\ Formatted = usdValue(Zero)
  /\ exprResult.kind = "error"
  /\ \A n \in FormatAmounts \ {0} : \A unit \in Units :
       evaluateExpression(formatValue(Val(Int2Amount(n), unit)), EmptyEnv)
         = ValueResult(Val(Int2Amount(n), unit))
  /\ evaluateExpression(formatValue(numberValue(Zero)), EmptyEnv)
       = ValueResult(numberValue(Zero))

\* C17: formatValue renders an amount of 0 as `0` without a unit and as `$0`
\* in usd, never in scientific notation.
ZeroRenderedPlain ==
  (exprShape.form = "format" /\ exprShape.n = 0 /\ exprSource # Null)
    => /\ exprSource.text = WrittenOperand(exprShape.unit, 0)
       /\ ~includes(exprSource.text, "e")

\* C17: formatValue has returned `$0e0` for a usd amount of 0, and `0` for
\* the unitless one.
UsdZeroRenderedScientific ==
  /\ exprShape.form = "format"
  /\ Formatted = usdValue(Zero)
  /\ exprSource = Source(<< "$", "0", "e", "0" >>)
  /\ formatValue(numberValue(Zero)) = << "0" >>

\* C27: a division by a non-zero amount keeps the unit of the dividend when
\* the divisor is unitless, is unitless when both operands carry the same
\* unit, and is the error `Unit mismatch` when the divisor carries a unit
\* the dividend does not have, a unitless dividend included (`2 / $2`).
QuotientUnit ==
  (Evaluated("units") /\ exprShape.op1 = "/" /\ exprShape.b # 0)
    => exprResult =
         IF exprShape.ru = "none"
           THEN ValueResult(Val(Rat(exprShape.a, exprShape.b), exprShape.lu))
         ELSE IF exprShape.lu = exprShape.ru
           THEN ValueResult(Val(Rat(exprShape.a, exprShape.b), "none"))
         ELSE Err("Unit mismatch", << >>)

\* C27 witness: `$5 / $2`, two amounts in dollars, has been evaluated to the
\* unitless 5/2, and `2 / $2` is a unit mismatch.
DollarsOverDollarsUnitless ==
  /\ Evaluated("units")
  /\ exprSource.text = << "$", "5", " ", "/", " ", "$", "2" >>
  /\ exprResult = ValueResult(numberValue(Rat(5, 2)))
  /\ evaluateExpression(<< "2", " ", "/", " ", "$", "2" >>, EmptyEnv)
       = Err("Unit mismatch", << >>)

\* base ^ exponent on naturals (1 for the exponent 0).
NatPower(base, exponent) == IF exponent = 0 THEN 1 ELSE base ^ exponent

\* C28: `^` on an operand that carries a unit is the error `Cannot
\* exponentiate unit values`; on unitless operands a power that is not
\* finite is the error `Invalid exponentiation` and a finite power is
\* returned as a unitless value.
PowerOfUnitlessOperands ==
  (Evaluated("units") /\ exprShape.op1 = "^")
    => exprResult =
         IF exprShape.lu # "none" \/ exprShape.ru # "none"
           THEN Err("Cannot exponentiate unit values", << >>)
         ELSE IF NatPower(exprShape.a, exprShape.b) > MaxFinite
           THEN Err("Invalid exponentiation", << >>)
         ELSE ValueResult(numberValue(Int2Amount(NatPower(exprShape.a, exprShape.b))))

\* C28 witness: `9 ^ 9`, a power beyond the largest finite amount, has been
\* evaluated to the error, and `$2 ^ 2` is refused for its unit.
PowerBeyondFiniteRefused ==
  /\ Evaluated("units")
  /\ exprSource.text = << "9", " ", "^", " ", "9" >>
  /\ exprResult = Err("Invalid exponentiation", << >>)
  /\ evaluateExpression(<< "$", "2", " ", "^", " ", "2" >>, EmptyEnv)
       = Err("Cannot exponentiate unit values", << >>)

\* What an operand of OperandTexts evaluates to on its own, with no
\* variable defined.
OperandResult(text) ==
  CASE text = << "2" >> -> ValueResult(numberValue(Int2Amount(2)))
    [] text = << "$", "2" >> -> ValueResult(usdValue(Int2Amount(2)))
    [] text = << "0" >> -> ValueResult(numberValue(Zero))
    [] text = << "(", "1", " ", "/", " ", "0", ")" >> -> Err("Division by zero", << >>)
    [] OTHER -> Err("Undefined variable: ", text)

\* The positions of the arguments of an `apply` shape that fail.
FailingArguments ==
  {i \in 1..Len(exprShape.args) : OperandResult(exprShape.args[i]).kind # "value"}

\* C29: a call whose arguments all evaluate to values is a value exactly
\* when it is max or min of 2 arguments or round, ceil or floor of 1
\* argument; one of these names with another number of arguments is the
\* error `<name> expects <n> argument(s)`, and any other name is the error
\* `Unknown function: <name>`.
CallChecksNameAndArity ==
  (Evaluated("apply") /\ FailingArguments = {})
    => LET name == exprShape.name
           count == Len(exprShape.args)
       IN  CASE name \in {<< "m", "a", "x" >>, << "m", "i", "n" >>} ->
                  IF count = 2 THEN exprResult.kind = "value"
                  ELSE exprResult = Err(" expects 2 arguments", name)
             [] name \in {<< "r", "o", "u", "n", "d" >>, << "c", "e", "i", "l" >>,
                          << "f", "l", "o", "o", "r" >>} ->
                  IF count = 1 THEN exprResult.kind = "value"
                  ELSE exprResult = Err(" expects 1 argument", name)
             [] OTHER -> exprResult = Err("Unknown function: ", name)

\* C29 witness: `max(2, $2, 0)`, a known name with one argument too many,
\* has been evaluated to `max expects 2 arguments`.
MaxOfThreeRefused ==
  /\ Evaluated("apply")
  /\ exprSource.text = << "m", "a", "x", "(", "2", ",", " ", "$", "2", ",", " ", "0", ")" >>
  /\ exprResult = Err(" expects 2 arguments", << "m", "a", "x" >>)

\* C30: evaluation reports the first error from left to right: the error
\* of the left operand whatever the right operand is, else the error of the
\* right operand before any error of the operator itself, and for a call
\* the error of the first argument that fails, before the name and the
\* number of arguments are looked at.
FirstErrorReported ==
  /\ Evaluated("binary")
       => LET left == OperandResult(exprShape.left)
              right == OperandResult(exprShape.right)
          IN  exprResult =
                IF left.kind # "value" THEN left
                ELSE IF right.kind # "value" THEN right
                ELSE evalBinary(exprShape.op1, left.value, right.value)
  /\ (Evaluated("apply") /\ FailingArguments # {})
       => \E first \in FailingArguments :
            /\ \A other \in FailingArguments : first <= other
            /\ exprResult = OperandResult(exprShape.args[first])

\* C30 witness: `x / 0` has been evaluated to the error of its left
\* operand, not to `Division by zero`, and `nope(2, y, x)` gives the error
\* of y.
LeftErrorBeforeDivisionByZero ==
  /\ Evaluated("binary")
  /\ exprSource.text = << "x", " ", "/", " ", "0" >>
  /\ exprResult = Err("Undefined variable: ", << "x" >>)
  /\ evaluateExpression(<< "n", "o", "p", "e", "(", "2", ",", " ", "y", ",", " ", "x", ")" >>,
                        EmptyEnv)
       = Err("Undefined variable: ", << "y" >>)

----------------------------------------------------------------------------
(* Claims about statements                                                  *)

IsBlank(text) == \A i \in 1..Len(text) : text[i] \in Whitespace

\* The text without the blanks at its two ends.
Trimmed(text) ==
  LET inked == {i \in 1..Len(text) : text[i] \notin Whitespace}
  IN  IF inked = {} THEN << >>
      ELSE SubSeq(text, CHOOSE i \in inked : \A j \in inked : i <= j,
                  CHOOSE i \in inked : \A j \in inked : j <= i)

\* [A-Za-z_][A-Za-z0-9_]*
IsIdentifier(text) ==
  /\ Len(text) >= 1
  /\ text[1] \in Letters
  /\ \A i \in 1..Len(text) : text[i] \in Letters \cup Digits

\* The classification of a line, by the tests in their order.
Classified(source) ==
  LET equals == {i \in 1..Len(source) : source[i] = "="}
      first == CHOOSE i \in equals : \A j \in equals : i <= j
      left == Trimmed(SubSeq(source, 1, first - 1))
      right == SubSeq(source, first + 1, Len(source))
  IN  CASE IsBlank(source) -> [kind |-> "empty"]
        [] equals = {} -> [kind |-> "expr", exprSource |-> source]
        [] ~IsIdentifier(left) -> Err("Invalid assignment target", << >>)
        [] IsBlank(right) -> Err("Missing assignment expression", << >>)
        [] Cardinality(equals) > 1 -> Err("Unexpected trailing = in assignment", << >>)
        [] OTHER -> [kind |-> "assign", name |-> left, exprSource |-> right]

\* C18: parseStatement returns `empty` for a blank line, `expr` for a line
\* without `=`, and otherwise, with the line split at its first `=`:
\* `Invalid assignment target` if the trimmed left side is no identifier, else
\* `Missing assignment expression` if the right side is blank, else
\* `Unexpected trailing = in assignment` if the right side holds another `=`,
\* else `assign` with that name and right side.
StatementClassifiedInOrder ==
  (exprShape.form = "statement" /\ exprResult # Null)
    => exprResult = Classified(exprShape.text)

\* C18 witness: `1a=`, with a bad target and a blank right side, has been
\* classified by the first of the two tests.
BadTargetReportedBeforeBlankRightSide ==
  /\ exprShape.form = "statement"
  /\ exprShape.text = << "1", "a", "=" >>
  /\ exprResult = Err("Invalid assignment target", << >>)

\* C19: evaluateLine rejects an assignment to the reserved name `total` with
\* the statement error `Cannot assign to reserved name: total` and leaves the
\* environment as it was.
ReservedNameRejected ==
  \A i \in 1..Len(programLog) :
    programLog[i].code = LTotalAssign
      => /\ programLog[i].evaluation = Err("Cannot assign to reserved name: ", total)
         /\ programLog[i].envAfter = programLog[i].envBefore

\* C19: `total = 2` has been evaluated as an assignment with the value 2, and
\* the caller's map binds `total` to it.
TotalBoundByAssignment ==
  /\ Len(programLog) = 1
  /\ programLog[1].code = LTotalAssign
  /\ programLog[1].evaluation =
       [kind |-> "assign", name |-> total,
        result |-> ValueResult(numberValue(Int2Amount(2)))]
  /\ programEnv = EnvSet(EmptyEnv, total, numberValue(Int2Amount(2)))

----------------------------------------------------------------------------
(* Claims about the documents and tabs of the application                   *)

DocumentIds(documents) == {documents[i].id : i \in 1..Len(documents)}

\* The last operation was a deleteDocument with the given answer to the
\* confirmation.
Deleted(confirmed) ==
  lastOperation.name = "deleteDocument" /\ lastOperation.confirmed = confirmed

\* C24: once createApp has loaded what storage holds, and after every add,
\* select and delete of a tab, there is at least one document and activeId
\* is the id of one of them.  A stored activeId no stored document has
\* becomes the id of the first stored document; a confirmed delete of the
\* only tab leaves one new, empty document, active; a confirmed delete of
\* the active tab among several activates the tab that followed it, or the
\* one before it when it was the last; a declined delete changes nothing.
TabsKeepAnActiveDocument ==
  LET documents == documentsState.documents
      activeId == documentsState.activeId
      before == lastOperation.before
      stored == lastOperation.stored
      index == findIndex(before.documents, lastOperation.id)
  IN  /\ documents # << >>
      /\ activeId \in DocumentIds(documents)
      /\ (/\ lastOperation.name = "createApp"
          /\ ~lastOperation.hasShared
          /\ stored.kind = "state"
          /\ stored.documents # << >>
          /\ stored.activeId \notin DocumentIds(stored.documents))
           => /\ documents = stored.documents
              /\ activeId = stored.documents[1].id
      /\ Deleted(FALSE) => documentsState = before
      /\ (Deleted(TRUE) /\ Len(before.documents) = 1)
           => /\ Len(documents) = 1
              /\ documents[1].content = << >>
              /\ documents[1].id \notin DocumentIds(before.documents)
              /\ activeId = documents[1].id
      /\ (Deleted(TRUE) /\ Len(before.documents) > 1 /\ before.activeId = lastOperation.id)
           => /\ documents = splice(before.documents, index)
              /\ activeId = IF index < Len(before.documents)
                              THEN before.documents[index + 1].id
                              ELSE before.documents[index - 1].id

\* C24 witness: the active tab, the last of two, has been deleted after the
\* confirmation, and the tab before it is the active one.
LastTabDeletedActivatesPrevious ==
  /\ Deleted(TRUE)
  /\ Len(lastOperation.before.documents) = 2
  /\ lastOperation.before.activeId = lastOperation.id
  /\ lastOperation.before.documents[1].id # lastOperation.id
  /\ Len(documentsState.documents) = 1
  /\ documentsState.activeId = lastOperation.before.documents[1].id

----------------------------------------------------------------------------
(* Claims about the document pass of the editor                             *)

\* The line has neither code nor a comment.
IsBlockBreak(entry) == ~entry.hasComment /\ trim(entry.code) = << >>

Errored(entry) == resultKindOf(entry.evaluation) = "error"

Succeeded(entry) ==
  entry.evaluation.kind \in {"expr", "assign"} /\ entry.evaluation.result.kind = "value"

\* The last line up to the k-th that has neither code nor a comment; 0 when
\* there is none.
BlockBreakBefore(lines, k) ==
  IF \E j \in 1..k : IsBlockBreak(lines[j])
    THEN CHOOSE j \in 1..k :
           IsBlockBreak(lines[j]) /\ \A i \in (j + 1)..k : ~IsBlockBreak(lines[i])
    ELSE 0

\* The sum of the successful results of the lines first..last, a bare `total`
\* line not counted; the sum is in dollars once a counted result is.
RECURSIVE SumOfResults(_, _, _)
SumOfResults(lines, first, last) ==
  IF last < first THEN numberValue(Zero)
  ELSE LET rest == SumOfResults(lines, first, last - 1)
           counted == Succeeded(lines[last]) /\ trim(lines[last].code) # total
           result == lines[last].evaluation.result.value
       IN  IF ~counted THEN rest
           ELSE Val(Add(rest.amount, result.amount),
                    IF rest.unit = "none" THEN result.unit ELSE rest.unit)

DisplayValues == [i \in 1..Len(latestComputations) |-> latestComputations[i].displayValue]

\* C1: in a pass, `total` is bound before each line to the sum of the
\* successful results of the preceding lines of its block (bare `total` lines
\* apart); the sum restarts at 0, unitless, on a line with neither code nor a
\* comment, and not on a comment-only line.  For the lines 2, # note, 3,
\* total, (blank), 4, total the displayed results are 2, none, 3, 5, none, 4, 4.
RunningBlockTotal ==
  /\ \A k \in 1..Len(passTrace.lines) :
       /\ passTrace.lines[k].boundTotal =
            SumOfResults(passTrace.lines, BlockBreakBefore(passTrace.lines, k) + 1, k - 1)
       /\ EnvGet(passTrace.lines[k].envBefore, total) = passTrace.lines[k].boundTotal
       /\ IsBlockBreak(passTrace.lines[k])
            => passTrace.lines[k].boundTotal = numberValue(Zero)
  /\ inputValue = DocBlocks
       => DisplayValues = << << "2" >>, << >>, << "3" >>, << "5" >>, << >>, << "4" >>,
                             << "4" >> >>

\* C1 witness: the second pass (the animation frame) over the two blocks has
\* shown 5 for the first `total` and 4 for the second.
BlocksSummed ==
  /\ inputValue = DocBlocks
  /\ lastEvent = "frame"
  /\ latestComputations[4].displayValue = << "5" >>
  /\ latestComputations[7].displayValue = << "4" >>

\* C2: a line whose code is exactly `total`, and a line in error, leave the
\* block total as it was; consecutive `total` lines display the same value.
\* For the lines 1 +, 2, total, total the results are error, 2, 2, 2.
TotalLinesAndErrorsAddNothing ==
  /\ \A k \in 1..Len(passTrace.lines) :
       (trim(passTrace.lines[k].code) = total \/ Errored(passTrace.lines[k]))
         => passTrace.lines[k].totalAfter = passTrace.lines[k].boundTotal
  /\ \A k \in 1..(Len(passTrace.lines) - 1) :
       (/\ trim(passTrace.lines[k].code) = total
        /\ trim(passTrace.lines[k + 1].code) = total
        /\ Succeeded(passTrace.lines[k]))
         => /\ Succeeded(passTrace.lines[k + 1])
            /\ latestComputations[k + 1].displayValue = latestComputations[k].displayValue
  /\ inputValue = DocErrorThenTotals
       => /\ latestComputations[1].hasError
          /\ \A i \in 2..4 : /\ ~latestComputations[i].hasError
                             /\ latestComputations[i].displayValue = << "2" >>

\* C2 witness: the second of two `total` lines after an error line shows 2.
SecondTotalShowsTheSame ==
  /\ inputValue = DocErrorThenTotals
  /\ Errored(passTrace.lines[1])
  /\ trim(passTrace.lines[4].code) = total
  /\ latestComputations[4].displayValue = << "2" >>

\* C5: a pass yields one computation per line of the text, in line order;
\* every line is evaluated, against what the line before it left; a line in
\* error leaves the block total as it was, and the environment too unless it
\* is the active line and its fallback binding is applied.
OneComputationPerLine ==
  /\ Len(latestComputations) = Len(split(inputValue, "\n"))
  /\ Len(passTrace.lines) = Len(latestComputations)
  /\ \A k \in 1..Len(latestComputations) :
       /\ latestComputations[k].code = getLineCode(parseLine(split(inputValue, "\n")[k]))
       /\ passTrace.lines[k].evaluation =
            evaluateLine(latestComputations[k].code, passTrace.lines[k].envBefore).evaluation
       /\ latestComputations[k].hasError =
            (Errored(passTrace.lines[k]) /\ trim(latestComputations[k].code) # << >>)
       /\ Errored(passTrace.lines[k])
            => /\ passTrace.lines[k].totalAfter = passTrace.lines[k].boundTotal
               /\ \/ passTrace.lines[k].envAfter = passTrace.lines[k].envBefore
                  \/ /\ passTrace.focus
                     /\ passTrace.active = k - 1
                     /\ passTrace.lines[k].fallbackApplied
  /\ \A k \in 1..(Len(passTrace.lines) - 1) :
       passTrace.lines[k + 1].envBefore =
         EnvSet(passTrace.lines[k].envAfter, total, passTrace.lines[k + 1].boundTotal)

\* C5 witness: the line after a line in error has been evaluated.
LineAfterErrorEvaluated ==
  /\ inputValue = DocErrorThenTotals
  /\ latestComputations[1].hasError
  /\ passTrace.lines[1].envAfter = passTrace.lines[1].envBefore
  /\ passTrace.lines[2].evaluation.result = Operand(2)

\* C6: once the caret is on another line than the broken `foo =`, both that
\* line and the `foo + 1` after it report errors, and both are marked when
\* the caret is on neither of them.
DependentsOfBrokenAssignmentMarked ==
  (inputValue = DocFooBroken /\ hasFocus /\ activeLineIndex # 0)
    => /\ latestComputations[1].hasError
       /\ latestComputations[2].hasError
       /\ activeLineIndex = 2 => {0, 1} \subseteq errorLines

\* C6: the caret has left the broken `foo =` line, which alone is marked;
\* `foo + 1` still shows 2, computed with the fallback binding of foo.
DependentStaleAfterCaretLeft ==
  /\ inputValue = DocFooBroken
  /\ hasFocus
  /\ lastEvent = "cursor"
  /\ activeLineIndex = 2
  /\ errorLines = {0}
  /\ latestComputations[2].displayValue = << "2" >>

\* C7: right after a pass, a second pass over the same text, with the same
\* focus state and caret line, yields the same computation for every line.
PassIsIdempotent ==
  lastEvent \in {"construct", "input", "frame"}
    => Pass(inputValue, activeLineIndex, hasFocus).latestComputations = latestComputations

\* C7 witness: a pass has just run in which the active line, in error, lent
\* its last valid assignment to the lines after it.
PassWithFallbackJustRan ==
  /\ lastEvent = "input"
  /\ inputValue = DocFooBroken
  /\ passTrace.lines[1].fallbackApplied
  /\ ~latestComputations[2].hasError

\* The bindings of an environment other than `total`.
Variables(env) == [name \in DOMAIN env \ {total} |-> env[name]]

\* C8: in a pass without focus, the variables in the environment after each
\* line are exactly the names the lines of the text so far assigned
\* successfully, with their latest values: nothing of an earlier pass.
EnvironmentBuiltFresh ==
  ~passTrace.focus
    => \A k \in 1..Len(passTrace.lines) :
         /\ total \in DOMAIN passTrace.lines[k].envAfter
         /\ Variables(passTrace.lines[k].envAfter) = DefinedBefore(passTrace.lines, k + 1)

\* C8 witness: a pass without focus over the broken `foo =`, whose line still
\* remembers the assignment foo = 1 of an earlier pass, has left `foo + 1`
\* in error.
StaleAssignmentNotVisible ==
  /\ ~passTrace.focus
  /\ inputValue = DocFooBroken
  /\ lastValidAssignments[1] # Null
  /\ Variables(passTrace.lines[3].envAfter) = EmptyEnv
  /\ latestComputations[2].hasError

\* The line had an error at the last pass (a line the text did not have then
\* had none).
HadError(index) ==
  index < Len(latestComputations) /\ latestComputations[index + 1].hasError

\* C20: while the textarea has focus, an edit that gives the caret line an
\* error it did not have at the last pass does not show the error underline
\* on that line at once: it waits for the caret to leave the line, for the
\* blur, or for 2000 ms without input after the edit.
ErrorOfEditDeferred ==
  [][(/\ lastEvent' = "input"
      /\ edits' = edits + 1
      /\ hasFocus
      /\ ~HadError(activeLineIndex')
      /\ latestComputations'[activeLineIndex' + 1].hasError)
       => activeLineIndex' \notin errorLines']_vars

\* C20: an edit has broken the caret line `foo = 1`, which the idle timer
\* had put among the revealed lines while it was still valid, and the
\* underline is on the line with no timer pending.
ErrorOfEditShownAtOnce ==
  /\ lastEvent = "input"
  /\ edits = 1
  /\ hasFocus
  /\ inputValue = DocFooBroken
  /\ activeLineIndex = 0
  /\ latestComputations[1].hasError
  /\ 0 \in errorLines
  /\ activeLineIdleTimer = Null

\* The step is the callback of the idle timer.
TimerFired ==
  activeLineIdleTimer # Null /\ activeLineIdleTimer' = Null /\ lastEvent' = "idle"

\* The step is an edit (an 'input' event).
Edited == lastEvent' = "input" /\ edits' = edits + 1

ErrorsOffActiveLineUnderlined ==
  \A index \in 0..(Len(latestComputations) - 1) :
    (HadError(index) /\ ~(hasFocus /\ index = activeLineIndex))
      => index \in errorLines

\* C22: `foo =` and `foo + 1` arrived in one edit with the caret on the
\* second line and nothing revealed; the blur that followed has underlined
\* both lines, the active one included.
BlurUnderlinedActiveLine ==
  /\ lastEvent = "blur"
  /\ inputValue = DocFooBroken
  /\ passTrace.focus
  /\ passTrace.revealed = {}
  /\ passTrace.active = 1
  /\ activeLineIndex = 1
  /\ HadError(0)
  /\ HadError(1)
  /\ errorLines = {0, 1}

\* What the gutter shows for the lines of the last pass that have a value or
\* are empty: the formatted value, or nothing with no last value kept.
GutterShowsPass ==
  \A i \in 1..Len(passTrace.lines) :
    LET entry == passTrace.lines[i]
        shown == latestComputations[i].displayValue
    IN  /\ Succeeded(entry) => shown = formatValue(entry.evaluation.result.value)
        /\ entry.evaluation.kind = "empty" => shown = << >> /\ lastValidValues[i] = Null

\* C23: a line that evaluates to a value shows that value formatted, an
\* empty line shows nothing and keeps no last value, and a line in error
\* that had the value v at the pass before, at the same index, still shows
\* the formatted v.
GutterKeepsLastValidValue ==
  /\ []GutterShowsPass
  /\ [][\A i \in 1..Min(Len(passTrace.lines), Len(passTrace'.lines)) :
          (Succeeded(passTrace.lines[i]) /\ Errored(passTrace'.lines[i]))
            => latestComputations'[i].displayValue =
                 formatValue(passTrace.lines[i].evaluation.result.value)]_vars

\* C23: `foo = 1` was edited into `foo =`, which is in error, and the gutter
\* still shows 1 on that line.
BrokenLineShowsLastValue ==
  /\ lastEvent = "input"
  /\ inputValue = DocFooBroken
  /\ Errored(passTrace.lines[1])
  /\ latestComputations[1].hasError
  /\ latestComputations[1].displayValue = << "1" >>

\* C25: in a pass, a line with `=` that fails re-binds the last successful
\* assignment recorded for its index exactly when the textarea has focus,
\* the line is the active line and its error has not been revealed; in
\* every other case the failed line leaves the environment as it found it.
FallbackOnlyOnHiddenActiveLine ==
  \A k \in 1..Len(passTrace.lines) :
    LET entry == passTrace.lines[k]
        fallback == lastValidAssignments[k]
        masked == /\ passTrace.focus
                  /\ passTrace.active = k - 1
                  /\ (k - 1) \notin passTrace.revealed
    IN  (Errored(entry) /\ includes(entry.code, "="))
          => entry.envAfter =
               IF masked /\ fallback # Null
                 THEN EnvSet(entry.envBefore, fallback.name, fallback.value)
                 ELSE entry.envBefore

\* C25: `foo = 1` was edited into `foo =` under the caret, with focus and
\* nothing revealed, and the pass has bound foo to 1 again after the line.
FallbackReboundLastAssignment ==
  /\ lastEvent = "input"
  /\ inputValue = DocFooBroken
  /\ passTrace.focus
  /\ passTrace.active = 0
  /\ 0 \notin passTrace.revealed
  /\ Errored(passTrace.lines[1])
  /\ Variables(passTrace.lines[1].envBefore) = EmptyEnv
  /\ Variables(passTrace.lines[1].envAfter) = EnvSet(EmptyEnv, << "f", "o", "o" >>, Operand(1).value)

----------------------------------------------------------------------------
(* Claims about comments and the mirror                                     *)

\* The raw lines of the text in the textarea.
RawLinesOf(text) == split(text, "\n")

\* The position (from 1) of the `#` that starts the comment of a line, 0 for
\* a line without one: the first `#` that is the first inked character of the
\* line or stands right after a blank.
CommentStart(raw) ==
  LET starts(i) == /\ raw[i] = "#"
                   /\ \/ \A j \in 1..(i - 1) : raw[j] \in Whitespace
                      \/ raw[i - 1] \in Whitespace
      found == {i \in 1..Len(raw) : starts(i)}
  IN  IF found = {} THEN 0 ELSE CHOOSE i \in found : \A j \in found : i <= j

\* C31: in a line, `#` starts a comment only as the first non-whitespace
\* character of the line or right after a whitespace character; the comment
\* runs to the end of the line, only the text before it is evaluated as code,
\* and a `#` right after a non-whitespace character stays part of the code.
CommentStartsAtFreeHash ==
  \A k \in 1..Len(passTrace.lines) :
    LET raw == RawLinesOf(inputValue)[k]
        start == CommentStart(raw)
        nodes == parseLine(raw).nodes
        last == nodes[Len(nodes)]
        entry == passTrace.lines[k]
    IN  /\ entry.hasComment <=> start > 0
        /\ start = 0 => /\ entry.code = raw
                        /\ nodes = << CodeNode(raw) >>
        /\ start > 0 =>
             /\ last.type = "comment"
             /\ Len(last.text) >= Len(raw) - start + 1
             /\ last.text = SubSeq(raw, Len(raw) - Len(last.text) + 1, Len(raw))
             /\ \A i \in 1..(Len(nodes) - 1) : nodes[i].type = "code"
             /\ trim(entry.code) = trim(SubSeq(raw, 1, start - 1))
             /\ entry.evaluation =
                  evaluateLine(SubSeq(raw, 1, start - 1), entry.envBefore).evaluation

\* C31 witness: in `1# #` the first `#` follows `1` and stays in the code, the
\* second follows a blank and starts the comment: the code evaluated is `1# `.
SecondHashStartedTheComment ==
  /\ inputValue = << "1", "#", " ", "#" >>
  /\ passTrace.lines[1].hasComment
  /\ passTrace.lines[1].code = << "1", "#", " " >>
  /\ passTrace.lines[1].evaluation.kind = "expr"
  /\ passTrace.lines[1].evaluation.result = Err("Unexpected character: ", << "#" >>)

----------------------------------------------------------------------------
(* Claims about the words of a unit                                         *)

\* The word without its power digit, and the power the digit stands for
\* (0 for a word without one).
Stem(word) ==
  IF Len(word) >= 2 /\ word[Len(word)] \in {"2", "3"}
    THEN SubSeq(word, 1, Len(word) - 1) ELSE word

SuffixPower(word) ==
  CASE Len(word) >= 2 /\ word[Len(word)] = "2" -> 2
    [] Len(word) >= 2 /\ word[Len(word)] = "3" -> 3
    [] OTHER -> 0

PrefixPower(word) ==
  CASE toLowerCase(word) \in {<< "s", "q" >>, << "s", "q", "u", "a", "r", "e" >>} -> 2
    [] toLowerCase(word) \in {<< "c", "u" >>, << "c", "u", "b", "i", "c" >>, << "c", "b" >>} -> 3
    [] OTHER -> 0

\* C32: for a power prefix word (`sq`/`square` for 2, `cu`/`cubic`/`cb` for 3)
\* followed by a unit word that ends in a power digit, parseUnitWords returns
\* a unit only when the power of the suffix equals the power of the prefix,
\* and the unit is then the base with that power; a mismatch is not a unit.
PrefixAndSuffixPowersAgree ==
  (/\ exprShape.form = "words"
   /\ exprResult # Null
   /\ Len(exprShape.words) = 2
   /\ PrefixPower(exprShape.words[1]) # 0
   /\ SuffixPower(exprShape.words[2]) # 0)
    => LET prefix == PrefixPower(exprShape.words[1])
           suffix == SuffixPower(exprShape.words[2])
           base == normalizeBaseUnitWord(Stem(exprShape.words[2]))
       IN  /\ exprResult.parsed # Null => prefix = suffix
           /\ (prefix = suffix /\ base # NoWord)
                => exprResult.parsed = UnitWords(base \o << PowerDigit(suffix) >>, 2)
           /\ prefix # suffix => exprResult.parsed = Null

\* C32 witness: `sq cm2` has been parsed to the unit `cm2`, two words long.
SqCm2IsCm2 ==
  /\ exprShape.form = "words"
  /\ exprShape.words = << << "s", "q" >>, << "c", "m", "2" >> >>
  /\ exprResult # Null
  /\ exprResult.parsed = UnitWords(<< "c", "m", "2" >>, 2)

\* C40: every unit identifier that parseUnitWords returns is known to the
\* catalog: tryGetMeasureInfo or tryGetTemperatureInfo has an info for it.
ReturnedUnitKnownToCatalog ==
  (exprShape.form = "words" /\ exprSource # Null)
    => \/ exprSource.measure # Null
       \/ exprSource.temperature # Null

\* C40: `cup2` is returned as the unit `cup2`, for which the
\* catalog has neither a measure nor a temperature.
Cup2UnknownToCatalog ==
  /\ exprShape.form = "words"
  /\ exprShape.words = << << "c", "u", "p", "2" >> >>
  /\ exprResult # Null
  /\ exprResult.parsed = UnitWords(<< "c", "u", "p", "2" >>, 1)
  /\ exprSource # Null
  /\ exprSource.measure = Null
  /\ exprSource.temperature = Null

----------------------------------------------------------------------------
(* Claims about the error tooltip                                           *)

\* The pointer is over a line whose error is shown.
OverShownError(line, lines) == line # NoLine /\ line \in lines

\* C33: the tooltip becomes visible only after the pointer has stayed for
\* tooltipDelayMs over a line whose error is shown (the timer a mousemove over
\* such a line set has run out, and no move off such lines cancelled it);
\* after the pointer leaves, the tooltip stays visible for tooltipDelayMs more
\* and is then hidden; a move back onto a line with a shown error within that
\* time cancels the pending hide.
TooltipFollowsPointerWithDelay ==
  [][/\ (tooltip.display = "none" /\ tooltip'.display = "block")
          => /\ lastEvent' = "tooltipShow"
             /\ tooltip.showTimer
             /\ tooltip'.lineIndex = pointer
             /\ OverShownError(pointer, errorLines)
     /\ (~tooltip.showTimer /\ tooltip'.showTimer)
          => /\ lastEvent' = "mousemove"
             /\ OverShownError(pointer', errorLines)
     /\ (/\ lastEvent' \in {"mousemove", "mouseleave"}
         /\ ~OverShownError(pointer', errorLines))
          => /\ ~tooltip'.showTimer
             /\ tooltip.display = "block"
                  => tooltip'.display = "block" /\ tooltip'.hideTimer
     /\ lastEvent' = "tooltipHide" => tooltip'.display = "none"
     /\ (/\ lastEvent' = "mousemove"
         /\ tooltip.hideTimer
         /\ OverShownError(pointer', errorLines))
          => /\ ~tooltip'.hideTimer
             /\ tooltip'.display = "block"]_vars

\* C33: the tooltip of `1 +` was shown, the pointer left and came back onto
\* the line, and the timer of the leave has hidden the tooltip under it.
TooltipHiddenUnderPointer ==
  /\ lastEvent = "tooltipHide"
  /\ edits = 0
  /\ inputValue = DocErrorThenValue
  /\ pointer = 0
  /\ 0 \in errorLines
  /\ tooltip.display = "none"

\* C36: whenever the tooltip is displayed, the line it is attached to exists,
\* has an error with a message, and that error is shown (underlined).
TooltipOnShownError ==
  tooltip.display = "block"
    => /\ tooltip.lineIndex # NoLine
       /\ tooltip.lineIndex < Len(latestComputations)
       /\ latestComputations[tooltip.lineIndex + 1].hasError
       /\ latestComputations[tooltip.lineIndex + 1].errorMessage # NoMessage
       /\ tooltip.lineIndex \in errorLines

\* C36: the pointer rested on `1 +`, an edit made the line `3` before the
\* delay ran out, and the timer has shown the tooltip of the old error.
TooltipOfFixedErrorShown ==
  /\ lastEvent = "tooltipShow"
  /\ inputValue = JoinLines(<< L3, L2 >>)
  /\ tooltip.display = "block"
  /\ tooltip.lineIndex = 0
  /\ tooltip.textContent = << "Unexpected end of input", << >> >>
  /\ ~latestComputations[1].hasError
  /\ errorLines = {}

----------------------------------------------------------------------------
(* Claims about what is folded into the running total                       *)

\* The lines of the block of line k, up to line k, whose results count for
\* the total: the successful ones that are not a bare `total`.
CountedInBlock(lines, k) ==
  {j \in (BlockBreakBefore(lines, k) + 1)..k :
     Succeeded(lines[j]) /\ Trimmed(lines[j].code) # total}

ResultOf(entry) == entry.evaluation.result.value

\* C37: only a line whose trimmed code is exactly `total` is kept out of the
\* running total; a successful line that uses `total` in an assignment or a
\* larger expression is folded in like any other line.  After 2, 3,
\* x = total a following `total` line shows 10.
OnlyBareTotalKeptOut ==
  /\ \A k \in 1..Len(passTrace.lines) :
       LET entry == passTrace.lines[k]
       IN  /\ (Succeeded(entry) /\ Trimmed(entry.code) = total)
                => entry.totalAfter = entry.boundTotal
           /\ (Succeeded(entry) /\ Trimmed(entry.code) # total)
                => entry.totalAfter.amount =
                     Add(entry.boundTotal.amount, ResultOf(entry).amount)
  /\ inputValue = DocTotalAssigned
       => DisplayValues = << << "2" >>, << "3" >>, << "5" >>, << "1", "0" >> >>
  /\ inputValue = DocTotalInExpression
       => DisplayValues = << << "2" >>, << "3" >>, << "5" >>, << >>, << "4" >>, << "4" >> >>

\* C37 witness: `x = total` was evaluated to 5 with the total 5, and the
\* `total` line after it shows 10.
AssignedTotalFoldedIn ==
  /\ inputValue = DocTotalAssigned
  /\ passTrace.lines[3].evaluation.kind = "assign"
  /\ passTrace.lines[3].boundTotal = numberValue(Int2Amount(5))
  /\ passTrace.lines[3].totalAfter = numberValue(Int2Amount(10))
  /\ latestComputations[4].displayValue = << "1", "0" >>

\* C38: within a block the running total has the unit of the first counted
\* result that bears a unit, from that result on until the next blank line,
\* and no unit before it; unitless results before and after it are added
\* into that unit.  For 5, $1, 7, total the total line shows $13.
BlockTotalKeepsFirstUnit ==
  /\ \A k \in 1..Len(passTrace.lines) :
       LET lines == passTrace.lines
           counted == CountedInBlock(lines, k)
           bearing == {j \in counted : ResultOf(lines[j]).unit # "none"}
           first == CHOOSE j \in bearing : \A i \in bearing : j <= i
       IN  /\ lines[k].totalAfter.unit =
                IF bearing = {} THEN "none" ELSE ResultOf(lines[first]).unit
           /\ lines[k].totalAfter.amount =
                SumOfResults(lines, BlockBreakBefore(lines, k) + 1, k).amount
  /\ inputValue = DocUnitInBlock
       => DisplayValues = << << "5" >>, << "$", "1" >>, << "7" >>, << "$", "1", "3" >>, << >>,
                             << "3" >>, << "3" >> >>

\* C38 witness: in 5, $1, 7, total the total was unitless 5 before `$1`,
\* $6 after it and $13 after the unitless 7.
UnitlessPromotedIntoDollars ==
  /\ inputValue = DocUnitInBlock
  /\ passTrace.lines[2].boundTotal = numberValue(Int2Amount(5))
  /\ passTrace.lines[2].totalAfter = usdValue(Int2Amount(6))
  /\ passTrace.lines[3].totalAfter = usdValue(Int2Amount(13))
  /\ latestComputations[4].displayValue = << "$", "1", "3" >>

----------------------------------------------------------------------------
(* Claims about unary signs                                                 *)

Signed(sign, inner) == IF sign = "-" THEN Negated(inner) ELSE inner

\* What a `signed` shape evaluates to when its sign is read as a unary
\* operator: after `^` it is refused; before the left operand it applies to
\* the whole power, and otherwise to the operand it stands before.
ExpectedSigned(shape) ==
  CASE shape.place = "right" /\ shape.op1 = "^" -> Err("Unexpected token: ", << "o", "p" >>)
    [] shape.place = "left" /\ shape.op1 = "^" ->
         Signed(shape.sign, Applied("^", Operand(shape.a), Operand(shape.b)))
    [] shape.place = "left" ->
         Applied(shape.op1, Signed(shape.sign, Operand(shape.a)), Operand(shape.b))
    [] OTHER ->
         Applied(shape.op1, Operand(shape.a), Signed(shape.sign, Operand(shape.b)))

\* C39: the right operand of `^` cannot start with a unary sign: `2 ^ -1` is
\* the error `Unexpected token: op`, while `2 ^ (-1)` and `-2 ^ 2` evaluate;
\* a unary `+` or `-` is accepted at the start of an operand of `*`, `/`, `+`
\* and `-`.
SignRefusedAfterPower ==
  (exprShape.form = "signed" /\ exprResult # Null)
    => /\ exprResult = ExpectedSigned(exprShape)
       /\ exprResult.kind = "error" <=> (exprShape.place = "right" /\ exprShape.op1 = "^")
       /\ (/\ exprShape.a = 2 /\ exprShape.b = 2 /\ exprShape.sign = "-"
           /\ exprShape.op1 = "^" /\ exprShape.place = "left")
            => exprResult = Operand(-4)

\* C39 witness: `2 ^ -1` has been evaluated to `Unexpected token: op`.
TwoToTheMinusOneRefused ==
  /\ exprShape.form = "signed"
  /\ exprSource = Source(<< "2", " ", "^", " ", "-", "1" >>)
  /\ exprResult = Err("Unexpected token: ", << "o", "p" >>)

----------------------------------------------------------------------------
(* Claims about the mirror                                                  *)

TextsOf(parts) == Concat([i \in 1..Len(parts) |-> parts[i].text])

\* C34: the mirror is a lossless projection of the text: the texts of the
\* nodes parseLine returns concatenate to the raw line, the texts of the
\* tokens tokenizeForHighlight returns concatenate to its source, and every
\* step of its loop consumes at least one character.
MirrorIsLossless ==
  /\ exprResult.kind = "line" => TextsOf(exprResult.line.nodes) = exprSource.text
  /\ exprResult.kind = "tokens"
       => /\ TextsOf(exprResult.highlight.tokens) = exprSource.text
          /\ ~exprResult.highlight.stalled
          /\ \A i \in 1..Len(exprResult.highlight.tokens) :
               exprResult.highlight.tokens[i].text # << >>

\* C34 witness: `$ 1,` is two tokens, the number `$ 1` with its blank and an
\* operator.
DollarBlankNumberIsOneToken ==
  /\ exprSource.text = << "$", " ", "1", "," >>
  /\ exprResult.kind = "tokens"
  /\ exprResult.highlight.tokens
       = << HighlightToken("number", << "$", " ", "1" >>), HighlightToken("operator", << "," >>) >>

----------------------------------------------------------------------------
(* Claims about the value kept for a line in error                          *)

\* C35: the value displayed for a line in error was produced by an earlier
\* successful evaluation of that same line, not by a line that occupied its
\* index before: when a line is inserted above or the first line is deleted,
\* every line in error displays what it displayed before the edit.
ErrorValueFollowsItsLine ==
  [][lastEvent' = "input"
       => /\ inputValue' = LineInsertedAbove(inputValue)
               => \A k \in 1..Len(latestComputations) :
                    latestComputations'[k + 1].hasError
                      => latestComputations'[k + 1].displayValue
                           = latestComputations[k].displayValue
          /\ (inputValue' = FirstLineDeleted(inputValue) /\ inputValue' # inputValue)
               => \A k \in 1..Len(latestComputations') :
                    latestComputations'[k].hasError
                      => latestComputations'[k].displayValue
                           = latestComputations[k + 1].displayValue]_vars

\* C35 witness: after a line was inserted above `1 +` and `2`, the line
\* `1 +`, which never had a value, displays the `2` its index had.
BrokenLineShowsValueOfLineBelow ==
  /\ lastEvent = "input"
  /\ inputValue = LineInsertedAbove(DocErrorThenValue)
  /\ latestComputations[2].code = LBroken
  /\ latestComputations[2].hasError
  /\ latestComputations[2].displayValue = << "2" >>

====
